---- MODULE Spec2Model ----
(***************************************************************************)
(* Conversation flow builder: the synthesis engine of server.js            *)
(* (analyzeConversationFlow, generateMermaidDiagram), the upload handler   *)
(* that drives it, and the persistence collaborator of lib/supabase.       *)
(*                                                                         *)
(* JavaScript values are tagged records [t, v]: t is the type tag and v    *)
(* the payload (a sequence of one-character strings for a string or a      *)
(* number's decimal form, a sequence of elements for an array).  Text is   *)
(* a sequence of one-character strings; the diagram is a sequence of       *)
(* chunks whose concatenation is the string the code builds.               *)
(***************************************************************************)
EXTENDS Integers, Sequences, FiniteSets, TLC

VARIABLES
    pc,               \* control position of the running handler
    flowData,         \* the graph handed to generateMermaidDiagram / parsed from the response
    mermaidDiagram,   \* the diagram string of the last tracked render
    prevDiagram,      \* the diagram string of the tracked render before it
    otherDiagram,     \* the diagram string rendered for an interleaved request
    renderCalls,      \* how many times generateMermaidDiagram has run on this server
    transcriptions,   \* the argument of analyzeConversationFlow
    transcriptText,   \* its local transcriptText once the prompt is built
    hasSpeakerSeparation, \* its local hasSpeakerSeparation
    requests,         \* the chat completion requests sent so far, in order
    calls,            \* the state of the GPT-4 and of the GPT-3.5 call: none, pending, resolved, rejected
    response,         \* the generator response being interpreted
    result,           \* the value analyzeConversationFlow returned
    env,              \* which API keys are configured
    files,            \* req.files: the temp files multer stored for the request
    fileIdx,          \* the position of a loop over the files
    tstatus,          \* completedTranscript.status
    polls,            \* how often the polling loop has waited for this file
    audioFileData,    \* the files kept for the upload to storage
    storeCalls,       \* how many times storeConversationFlow has been called
    storeResult,      \* what storeConversationFlow returned
    audioUploads,     \* what each uploadAudioFile returned
    unlinked,         \* the temp files unlinked so far, in order
    httpResponse,     \* the response sent
    analyzeCalls,     \* how often the handler has called analyzeConversationFlow
    runs,             \* the locals of each of the concurrent analyzeConversationFlow invocations
    selectedFiles,    \* the browser client's selectedFiles
    processBtnDisabled, \* processBtn.disabled
    fetches,          \* how many fetches of the client are in flight
    sentRequests      \* the file lists of the upload requests the client has sent

renderVars == <<flowData, mermaidDiagram, prevDiagram, otherDiagram, renderCalls>>
synthVars ==
    <<transcriptions, transcriptText, hasSpeakerSeparation, requests, calls, response, result>>

clientVars == <<selectedFiles, processBtnDisabled, fetches, sentRequests>>

uploadVars ==
    <<env, files, fileIdx, tstatus, polls, audioFileData, storeCalls, storeResult, audioUploads,
      unlinked, httpResponse, runs, clientVars, analyzeCalls>>

vars == <<pc, renderVars, synthVars, uploadVars>>

----------------------------------------------------------------------------
(* JavaScript values *)

Undef == [t |-> "undef", v |-> <<>>]
Null == [t |-> "null", v |-> <<>>]
Str(s) == [t |-> "str", v |-> s]
Num(s) == [t |-> "num", v |-> s]
Arr(s) == [t |-> "arr", v |-> s]

\* ToBoolean: undefined, null, '' and 0 are falsy
Truthy(x) ==
    CASE x.t = "undef" -> FALSE
      [] x.t = "null" -> FALSE
      [] x.t = "str" -> x.v # <<>>
      [] x.t = "num" -> x.v # <<"0">>
      [] OTHER -> TRUE

\* Array.isArray
IsArray(x) == x.t = "arr"

\* property read obj.nodes / obj.edges: undefined on anything but an object
Prop(obj, name) == IF obj.t = "obj" THEN obj[name] ELSE Undef

----------------------------------------------------------------------------
(* String primitives *)

RECURSIVE Flatten(_)
Flatten(ss) == IF ss = <<>> THEN <<>> ELSE Head(ss) \o Flatten(Tail(ss))

Rep(c, n) == [i \in 1..n |-> c]

\* String.prototype.substring(0, n)
Substring0(s, n) == IF Len(s) <= n THEN s ELSE SubSeq(s, 1, n)

Digit(d) == <<"0", "1", "2", "3", "4", "5", "6", "7", "8", "9">>[d + 1]

\* decimal form of a non-negative integer, as in a template literal
RECURSIVE NatToString(_)
NatToString(n) == IF n < 10 THEN <<Digit(n)>> ELSE NatToString(n \div 10) \o <<Digit(n % 10)>>

CtlChars == {"\r", "\n", "\t"}
QuoteChars == {"'", "\""}
\* the backtick cannot be written in a string literal; this token stands for it
Backtick == "<backtick>"
PunctChars == {Backtick, "~", "!", "@", "#", "$", "%", "^", "&", "*", "(", ")", "+", "=",
               "{", "}", "[", "]", "|", "\\", ":", ";", "<", ">", "?", ",", ".", "/"}
TrimChars == {" ", "\r", "\n", "\t"}

\* .replace(/[\r\n\t]+/g, ' '): every maximal run becomes one space
RECURSIVE ReplaceCtl(_)
ReplaceCtl(s) ==
    IF s = <<>> THEN <<>>
    ELSE IF Head(s) \in CtlChars
         THEN IF Len(s) > 1 /\ s[2] \in CtlChars
              THEN ReplaceCtl(Tail(s))
              ELSE <<" ">> \o ReplaceCtl(Tail(s))
         ELSE <<Head(s)>> \o ReplaceCtl(Tail(s))

\* .replace(/[<set>]/g, '')
Strip(s, set) == SelectSeq(s, LAMBDA c : c \notin set)

RECURSIVE TrimLeft(_)
TrimLeft(s) == IF s # <<>> /\ Head(s) \in TrimChars THEN TrimLeft(Tail(s)) ELSE s

RECURSIVE TrimRight(_)
TrimRight(s) ==
    IF s # <<>> /\ s[Len(s)] \in TrimChars THEN TrimRight(SubSeq(s, 1, Len(s) - 1)) ELSE s

\* String.prototype.trim
Trim(s) == TrimRight(TrimLeft(s))

\* the chain without its punctuation pass
SanitizeKeepPunctuation(s) == Trim(Strip(ReplaceCtl(s), QuoteChars))

\* the replace/replace/replace/trim chain shared by label, prompt and condition
Sanitize(s) == Trim(Strip(Strip(ReplaceCtl(s), QuoteChars), PunctChars))

----------------------------------------------------------------------------
(* generateMermaidDiagram *)

LabelBudget == 30
LabelKeep == 27
PromptCut == 60
PromptBudget == 50
PromptKeep == 47
ConditionCut == 20

Ellipsis == <<".", ".", ".">>

StartDiagram == <<"graph TD\n", "    Start[Start]">>
ErrorDiagram == <<"graph TD\n", "    Error[Error]">>

\* the style definitions every non-placeholder diagram starts with
DiagramHeader ==
    << "graph TD\n",
       "    classDef default fill:#ffffff,stroke:#000000,stroke-width:2px,color:#000000\n",
       "    classDef greeting fill:#f8f8f8,stroke:#000000,stroke-width:3px,color:#000000\n",
       "    classDef question fill:#ffffff,stroke:#000000,stroke-width:2px,stroke-dasharray: 5 5,color:#000000\n",
       "    classDef decision fill:#f0f0f0,stroke:#000000,stroke-width:2px,color:#000000\n",
       "    classDef confirmation fill:#ffffff,stroke:#000000,stroke-width:3px,color:#000000\n",
       "    classDef farewell fill:#e8e8e8,stroke:#000000,stroke-width:2px,color:#000000\n",
       "\n" >>

\* a node the first pass keeps: not null and with a truthy id
IsValidNode(node) == node.t = "obj" /\ Truthy(node.id)

\* positions (1-based) of the nodes the first pass keeps, in array order
ValidIndices(nodes) == {i \in 1..Len(nodes) : IsValidNode(nodes[i])}

\* ids drawn from a counter of the module instead of the position
SafeIdCounter(i) == <<"N">> \o NatToString(i - 1 + renderCalls)

\* `N${index}`, index being the 0-based position in flowData.nodes
SafeId(i) == <<"N">> \o NatToString(i - 1)

\* nodeMap.get(id): Map.set overwrites, so the last node with that id wins
HasNode(nodes, id) == \E i \in ValidIndices(nodes) : nodes[i].id = id

\* a map filled with ids counted from 1
NodeMapGetFromOne(nodes, id) ==
    LET hits == {i \in ValidIndices(nodes) : nodes[i].id = id}
    IN  SafeId((CHOOSE i \in hits : \A j \in hits : j <= i) + 1)

NodeMapGet(nodes, id) ==
    LET hits == {i \in ValidIndices(nodes) : nodes[i].id = id}
    IN  SafeId(CHOOSE i \in hits : \A j \in hits : j <= i)

\* the label cut as soon as it reaches the budget
MainLabelInclusive(node) ==
    LET raw == IF Truthy(node.content) THEN node.content.v ELSE <<"N", "o", "d", "e">>
        clean == Sanitize(raw)
    IN  IF Len(clean) >= LabelBudget THEN SubSeq(clean, 1, LabelKeep) \o Ellipsis ELSE clean

\* (node.content || 'Node').toString(), sanitized and truncated
MainLabel(node) ==
    LET raw == IF Truthy(node.content) THEN node.content.v ELSE <<"N", "o", "d", "e">>
        clean == Sanitize(raw)
    IN  IF Len(clean) > LabelBudget THEN SubSeq(clean, 1, LabelKeep) \o Ellipsis ELSE clean

\* substring called on fullPrompt without testing that there is one
PromptThrowsWhenAbsent(node) == node.fullPrompt.t # "str"

\* node.fullPrompt.substring is a TypeError on a truthy non-string
PromptThrows(node) == Truthy(node.fullPrompt) /\ node.fullPrompt.t # "str"

PromptSummary(node) ==
    IF ~Truthy(node.fullPrompt) THEN <<>>
    ELSE LET promptText == Sanitize(Substring0(node.fullPrompt.v, PromptCut))
         IN  IF Len(promptText) > PromptBudget
             THEN SubSeq(promptText, 1, PromptKeep) \o Ellipsis
             ELSE promptText

TypeIs(node, name) == node.type = Str(<<name>>)

NodeShape(node) ==
    IF TypeIs(node, "greeting") \/ TypeIs(node, "farewell") THEN "stadium"
    ELSE IF TypeIs(node, "decision") THEN "rhombus"
    ELSE "rectangle"

\* a class for whatever the type says
ClassTypeOfAnyType(node) == IF node.type.t = "str" THEN node.type.v ELSE <<>>

ClassType(node) ==
    IF \E name \in {"greeting", "question", "decision", "confirmation", "farewell"} :
           TypeIs(node, name)
    THEN node.type.v
    ELSE <<>>

\* one node declaration line of the second pass
NodeLine(node, i) ==
    LET shape == NodeShape(node)
        body == IF shape = "stadium"
                THEN <<"([\"">> \o MainLabel(node) \o <<"\"])">>
                ELSE IF shape = "rhombus"
                THEN <<"{\"">> \o MainLabel(node) \o <<"\"}">>
                ELSE IF PromptSummary(node) # <<>>
                THEN <<"[\"">> \o MainLabel(node) \o <<"<br/><small>">>
                         \o PromptSummary(node) \o <<"</small>\"]">>
                ELSE <<"[\"">> \o MainLabel(node) \o <<"\"]">>
        class == IF ClassType(node) # <<>> THEN <<":::">> \o ClassType(node) ELSE <<>>
    IN  <<"    ">> \o SafeId(i) \o body \o class \o <<"\n">>

\* an edge the third pass emits: not null, truthy endpoints, both in nodeMap
IsEmittedEdge(nodes, edge) ==
    /\ edge.t = "obj"
    /\ Truthy(edge.from)
    /\ Truthy(edge.to)
    /\ HasNode(nodes, edge.from)
    /\ HasNode(nodes, edge.to)

\* edge.condition.substring is a TypeError on a truthy non-string
ConditionThrows(edge) == Truthy(edge.condition) /\ edge.condition.t # "str"

EdgeLine(nodes, edge) ==
    IF ~IsEmittedEdge(nodes, edge) THEN <<>>
    ELSE IF Truthy(edge.condition)
    THEN <<"    ">> \o NodeMapGet(nodes, edge.from) \o <<" -->|">>
             \o Sanitize(Substring0(edge.condition.v, ConditionCut))
             \o <<"| ">> \o NodeMapGet(nodes, edge.to) \o <<"\n">>
    ELSE <<"    ">> \o NodeMapGet(nodes, edge.from) \o <<" --> ">>
             \o NodeMapGet(nodes, edge.to) \o <<"\n">>

\* the second pass numbering the nodes it keeps, not the nodes it was given
RECURSIVE NodeLinesFiltered(_, _)
NodeLinesFiltered(nodes, i) ==
    IF i > Len(nodes) THEN <<>>
    ELSE (IF IsValidNode(nodes[i])
          THEN NodeLine(nodes[i], Cardinality({j \in ValidIndices(nodes) : j <= i}))
          ELSE <<>>)
             \o NodeLinesFiltered(nodes, i + 1)

RECURSIVE NodeLines(_, _)
NodeLines(nodes, i) ==
    IF i > Len(nodes) THEN <<>>
    ELSE (IF IsValidNode(nodes[i]) THEN NodeLine(nodes[i], i) ELSE <<>>)
             \o NodeLines(nodes, i + 1)

RECURSIVE EdgeLines(_, _, _)
EdgeLines(nodes, edges, k) ==
    IF k > Len(edges) THEN <<>>
    ELSE EdgeLine(nodes, edges[k]) \o EdgeLines(nodes, edges, k + 1)

\* the edges the third pass walks: none unless flowData.edges is an array
EdgesOf(fd) == IF Truthy(Prop(fd, "edges")) /\ IsArray(Prop(fd, "edges"))
               THEN Prop(fd, "edges").v ELSE <<>>

\* the early returns of the validation at the top of the try block
IsPlaceholderInput(fd) ==
    \/ ~Truthy(fd)
    \/ ~Truthy(Prop(fd, "nodes"))
    \/ ~IsArray(Prop(fd, "nodes"))
    \/ Prop(fd, "nodes").v = <<>>

\* the condition sanitized before the endpoints are looked up
RenderThrowsEager(fd) ==
    /\ ~IsPlaceholderInput(fd)
    /\ LET nodes == Prop(fd, "nodes").v
           edges == EdgesOf(fd)
       IN  \/ \E i \in ValidIndices(nodes) : PromptThrows(nodes[i])
           \/ \E k \in 1..Len(edges) : edges[k].t = "obj" /\ ConditionThrows(edges[k])

\* whether the body of the try block raises a TypeError
RenderThrows(fd) ==
    /\ ~IsPlaceholderInput(fd)
    /\ LET nodes == Prop(fd, "nodes").v
           edges == EdgesOf(fd)
       IN  \/ \E i \in ValidIndices(nodes) : PromptThrows(nodes[i])
           \/ \E k \in 1..Len(edges) :
                  IsEmittedEdge(nodes, edges[k]) /\ ConditionThrows(edges[k])

\* the body without the override for an empty validNodes
RenderBodyNoOverride(fd) ==
    IF IsPlaceholderInput(fd) THEN StartDiagram
    ELSE DiagramHeader \o NodeLines(Prop(fd, "nodes").v, 1)
             \o EdgeLines(Prop(fd, "nodes").v, EdgesOf(fd), 1)

\* the body of the try block when nothing is thrown
RenderBody(fd) ==
    IF IsPlaceholderInput(fd) THEN StartDiagram
    ELSE LET nodes == Prop(fd, "nodes").v
         IN  IF ValidIndices(nodes) = {} THEN StartDiagram
             ELSE DiagramHeader \o NodeLines(nodes, 1) \o EdgeLines(nodes, EdgesOf(fd), 1)

\* a catch block that returns the other placeholder
generateMermaidDiagramWrongCatch(fd) == IF RenderThrows(fd) THEN StartDiagram ELSE RenderBody(fd)

\* try { ... } catch (error) { return 'graph TD\n    Error[Error]' }
generateMermaidDiagram(fd) == IF RenderThrows(fd) THEN ErrorDiagram ELSE RenderBody(fd)

----------------------------------------------------------------------------
(* Flow graphs.  A node carries the fields the renderer reads (id, type,   *)
(* content, fullPrompt); speaker, examples, listenFor, nextActions,        *)
(* timeout and retryPrompt are passed through unread and are left out.     *)

Node(id, type, content, fullPrompt) ==
    [t |-> "obj", id |-> id, type |-> type, content |-> content, fullPrompt |-> fullPrompt]
NullNode == [t |-> "null", id |-> Undef, type |-> Undef, content |-> Undef, fullPrompt |-> Undef]

Edge(from, to, condition) == [t |-> "obj", from |-> from, to |-> to, condition |-> condition]
NullEdge == [t |-> "null", from |-> Undef, to |-> Undef, condition |-> Undef]

\* an object with the given nodes, edges and globalInstructions properties
Flow(nodes, edges, globalInstructions) ==
    [t |-> "obj", v |-> <<>>, nodes |-> nodes, edges |-> edges,
     globalInstructions |-> globalInstructions]
\* JSON values that are not objects: null and a number
NullFlow ==
    [t |-> "null", v |-> <<>>, nodes |-> Undef, edges |-> Undef, globalInstructions |-> Undef]
NumFlow ==
    [t |-> "num", v |-> <<"7">>, nodes |-> Undef, edges |-> Undef, globalInstructions |-> Undef]

Id1 == Str(<<"node1">>)
Id2 == Str(<<"node2">>)
Id3 == Str(<<"node3">>)
IdX == Str(<<"x">>)

\* the nodes of the fallback flow returned when no JSON can be recovered
DefaultNode1 ==
    Node(Id1, Str(<<"greeting">>), Str(<<"G", "r", "e", "e", "t", "i", "n", "g">>),
         Str(<<"S", "t", "a", "r", "t", " ", "t", "h", "e", " ", "c", "o", "n", "v", "e", "r",
               "s", "a", "t", "i", "o", "n", " ", "w", "i", "t", "h", " ", "a", " ", "g", "r",
               "e", "e", "t", "i", "n", "g">>))
DefaultNode2 ==
    Node(Id2, Str(<<"question">>), Str(<<"M", "a", "i", "n", " ", "T", "o", "p", "i", "c">>),
         Str(<<"D", "i", "s", "c", "u", "s", "s", " ", "t", "h", "e", " ", "m", "a", "i", "n",
               " ", "t", "o", "p", "i", "c">>))
DefaultNode3 ==
    Node(Id3, Str(<<"farewell">>), Str(<<"C", "l", "o", "s", "i", "n", "g">>),
         Str(<<"E", "n", "d", " ", "t", "h", "e", " ", "c", "o", "n", "v", "e", "r", "s", "a",
               "t", "i", "o", "n">>))

\* the fallback flow itself (its diagram is not computed: it has none)
DefaultFlow ==
    Flow(Arr(<<DefaultNode1, DefaultNode2, DefaultNode3>>),
         Arr(<<Edge(Id1, Id2, Undef), Edge(Id2, Id3, Undef)>>),
         Str(<<"Be helpful and professional">>))

----------------------------------------------------------------------------
(* Inputs of the renderer *)

MaxNodes == 2
MaxEdges == 2

\* sequences over S of length at most n
SeqsUpTo(S, n) == UNION {[1..k -> S] : k \in 0..n}

NodeSamples ==
    { DefaultNode1,
      DefaultNode2,
      \* no id: dropped by the first pass
      Node(Undef, Str(<<"question">>), Str(<<"L", "o", "s", "t">>), Undef),
      \* the id of DefaultNode1 again, nothing else
      Node(Id1, Str(<<"decision">>), Undef, Undef),
      \* a number where fullPrompt should be a string; quotes, punctuation and
      \* control characters in the content; no type
      Node(Id2, Undef, Str(<<"a", " ", "\"", "b", "\"", "!", "\n", "\t", "c">>), Num(<<"7">>)),
      NullNode }

EdgeSamples ==
    { Edge(Id1, Id2, Undef),
      Edge(Id2, Id1, Str(<<"y", "e", "s", ",", " ", "o", "k", "!">>)),
      \* dangling endpoints, the second with a number as condition
      Edge(IdX, Id1, Undef),
      Edge(Id1, IdX, Num(<<"7">>)),
      \* a number where condition should be a string
      Edge(Id1, Id2, Num(<<"7">>)),
      NullEdge }

\* texts at and around the budgets of the renderer
Text45 ==
        <<"T", "h", "e", " ", "q", "u", "i", "c", "k", " ", "b", "r", "o", "w", "n", " ",
          "f", "o", "x", " ", "j", "u", "m", "p", "s", " ", "o", "v", "e", "r", " ", "t",
          "h", "e", " ", "l", "a", "z", "y", " ", "d", "o", "g", " ", "1">>
Text30 ==
        <<"a", "b", "c", "d", "e", "f", "g", "h", "i", "j", "k", "l", "m", "n", "o", "p",
          "q", "r", "s", "t", "u", "v", "w", "x", "y", "z", "0", "1", "2", "3">>
Text31 == Text30 \o <<"4">>
PunctuatedText ==
        <<"\"", "H", "i", "!", "!", "!", "\"", ",", " ", "(", "s", "a", "i", "d", ")",
          " ", "[", "t", "h", "e", "]", " ", "{", "a", "g", "e", "n", "t", "}", ";", " ",
          "o", "k", "?">>
LongPromptText ==
        <<"Y", "o", "u", " ", "a", "r", "e", " ", "a", "n", " ", "a", "g", "e", "n", "t",
          ".", " ", "G", "r", "e", "e", "t", " ", "t", "h", "e", " ", "c", "a", "l", "l",
          "e", "r", ",", " ", "a", "s", "k", " ", "f", "o", "r", " ", "t", "h", "e", " ",
          "n", "a", "m", "e", ";", " ", "t", "h", "e", "n", " ", "c", "o", "n", "f", "i",
          "r", "m", " ", "i", "t", "!">>
MultilinePromptText ==
        <<"A", "s", "k", ":", "\n", " ", "t", "h", "e", " ", "n", "a", "m", "e">>
LongConditionText ==
        <<"y", "e", "s", ",", " ", "o", "k", ";", " ", "o", "r", " ", "m", "a", "y", "b",
          "e", ":", " ", "s", "u", "r", "e", " ", "t", "h", "i", "n", "g">>

\* graphs whose texts are cut, and graphs whose nodes have nothing but an id
DetailInputs ==
    { Flow(Arr(<<Node(Id1, Str(<<"question">>), Str(Text45), Str(LongPromptText)),
                 Node(Id2, Str(<<"greeting">>), Str(Text30), Undef),
                 Node(Id3, Str(<<"decision">>), Str(Text31), Str(MultilinePromptText))>>),
           Arr(<<Edge(Id1, Id2, Str(LongConditionText))>>), Undef),
      Flow(Arr(<<Node(Id1, Str(<<"confirmation">>), Str(PunctuatedText), Str(MultilinePromptText)),
                 Node(Id2, Undef, Str(<<>>), Undef),
                 Node(Id3, Undef, Undef, Undef)>>),
           Arr(<<Edge(Id2, Id3, Undef),
                 Edge(Id1, Id3, Str(<<"y", "e", "s", ",", " ", "o", "k", "!">>))>>), Undef),
      \* a farewell with a prompt, and two types the lookup does not know, the
      \* second with punctuation between two spaces in its content
      Flow(Arr(<<Node(Id1, Str(<<"farewell">>), Str(<<"B", "y", "e">>), Str(<<"E", "n", "d">>)),
                 Node(Id2, Str(<<"other">>), Str(<<"M", "i", "s", "c">>), Str(<<"D", "o">>)),
                 Node(Id3, Str(<<"Greeting">>),
                      Str(<<"y", "e", "s", " ", "&", " ", "n", "o">>), Undef)>>),
           Arr(<<Edge(Id1, Id2, Undef)>>), Undef),
      \* an id used twice, a node without id in between, and a dangling edge
      Flow(Arr(<<Node(Id1, Str(<<"greeting">>), Str(<<"H", "i">>), Undef),
                 Node(Undef, Str(<<"question">>), Str(<<"L", "o", "s", "t">>), Undef),
                 Node(Id1, Str(<<"question">>), Str(<<"W", "h", "o">>), Undef),
                 Node(Id2, Str(<<"farewell">>), Str(<<"B", "y", "e">>), Undef)>>),
           Arr(<<Edge(Id1, Id2, Str(<<"o", "k">>)), Edge(Id2, Id1, Undef),
                 Edge(IdX, Id1, Undef)>>), Undef) }

\* the values generateMermaidDiagram is called on
RenderInputs ==
    DetailInputs \cup
    { Flow(Arr(ns), Arr(es), Undef) :
          ns \in SeqsUpTo(NodeSamples, MaxNodes), es \in SeqsUpTo(EdgeSamples, MaxEdges) }
    \cup { Flow(Arr(ns), Undef, Undef) : ns \in SeqsUpTo(NodeSamples, MaxNodes) }
    \cup { NullFlow, NumFlow,
           Flow(Undef, Arr(<<Edge(Id1, Id2, Undef)>>), Undef),
           Flow(Str(<<"n", "o", "d", "e", "s">>), Arr(<<Edge(Id1, Id2, Undef)>>), Undef) }

\* the graphs of the requests served in between
OtherInputs == { DefaultFlow, Flow(Arr(<<DefaultNode2>>), Arr(<<>>), Undef) }

NoDiagram == <<>>

----------------------------------------------------------------------------
(* analyzeConversationFlow: preparing the transcript text *)

\* a transcription as the upload handler builds it; an utterance of it
Transcription(text, utterances) == [text |-> text, utterances |-> utterances]
Utterance(speaker, text) == [t |-> "obj", speaker |-> speaker, text |-> text]
NullUtterance == [t |-> "null", speaker |-> <<>>, text |-> <<>>]

\* Array.prototype.join(sep) on texts: null and undefined elements become ''
RECURSIVE Join(_, _)
Join(texts, sep) ==
    IF texts = <<>> THEN <<>>
    ELSE IF Len(texts) = 1 THEN Head(texts)
    ELSE Head(texts) \o sep \o Join(Tail(texts), sep)

TextOf(x) == IF x.t = "str" THEN x.v ELSE <<>>

\* transcriptions.flatMap(t => t.utterances || [])
RECURSIVE AllUtterances(_)
AllUtterances(ts) ==
    IF ts = <<>> THEN <<>> ELSE Head(ts).utterances \o AllUtterances(Tail(ts))

\* reading u.speaker of a null utterance is a TypeError, caught as prepError
PrepThrows(ts) ==
    \E k \in 1..Len(AllUtterances(ts)) : AllUtterances(ts)[k].t = "null"

\* new Set(allUtterances.map(u => u.speaker))
UniqueSpeakers(ts) ==
    {AllUtterances(ts)[k].speaker : k \in 1..Len(AllUtterances(ts))}

\* speaker separation judged by the number of utterances
HasSpeakerSeparationByCount(ts) == Len(AllUtterances(ts)) > 1

\* the value of hasSpeakerSeparation at the end of the first try block
HasSpeakerSeparation(ts) ==
    Len(AllUtterances(ts)) > 0 /\ Cardinality(UniqueSpeakers(ts)) > 1

\* `Speaker ${u.speaker}: ${u.text}`
SpeakerLine(u) ==
    <<"S", "p", "e", "a", "k", "e", "r", " ">> \o u.speaker \o <<":", " ">> \o u.text

\* transcriptions.map(t => t.text).join('\n\n')
JoinedText(ts) == Join([k \in 1..Len(ts) |-> TextOf(ts[k].text)], <<"\n", "\n">>)

\* a preparation that keeps the utterance texts of a single speaker
PreparedTextPerUtterance(ts) ==
    IF HasSpeakerSeparation(ts)
    THEN Join([k \in 1..Len(AllUtterances(ts)) |-> SpeakerLine(AllUtterances(ts)[k])],
              <<"\n">>)
    ELSE IF Len(AllUtterances(ts)) > 0
         THEN Join([k \in 1..Len(AllUtterances(ts)) |-> AllUtterances(ts)[k].text], <<" ">>)
         ELSE JoinedText(ts)

\* the value of transcriptText at the end of the first try block
PreparedText(ts) ==
    IF HasSpeakerSeparation(ts)
    THEN Join([k \in 1..Len(AllUtterances(ts)) |-> SpeakerLine(AllUtterances(ts)[k])],
              <<"\n">>)
    ELSE JoinedText(ts)

----------------------------------------------------------------------------
(* Role inference *)

SentenceEnd == {".", "?", "!"}

\* transcriptText.split(/[.?!]+/): the pieces between maximal runs of . ? !
RECURSIVE SplitSentences(_, _)
SplitSentences(s, cur) ==
    IF s = <<>> THEN <<cur>>
    ELSE IF Head(s) \in SentenceEnd
         THEN IF Len(s) > 1 /\ s[2] \in SentenceEnd
              THEN SplitSentences(Tail(s), cur)
              ELSE <<cur>> \o SplitSentences(Tail(s), <<>>)
         ELSE SplitSentences(Tail(s), cur \o <<Head(s)>>)

\* .map(s => s.trim()).filter(s => s.length > 0)
Sentences(text) ==
    LET pieces == SplitSentences(text, <<>>)
        trimmed == [k \in 1..Len(pieces) |-> Trim(pieces[k])]
    IN  SelectSeq(trimmed, LAMBDA x : Len(x) > 0)

\* accented letters of the patterns, as tokens
EAcute == "<e-acute>"
IAcute == "<i-acute>"
NTilde == "<n-tilde>"

UpperCase == <<"A", "B", "C", "D", "E", "F", "G", "H", "I", "J", "K", "L", "M",
               "N", "O", "P", "Q", "R", "S", "T", "U", "V", "W", "X", "Y", "Z">>
LowerCase == <<"a", "b", "c", "d", "e", "f", "g", "h", "i", "j", "k", "l", "m",
               "n", "o", "p", "q", "r", "s", "t", "u", "v", "w", "x", "y", "z">>

\* case folding of the /i flag
Lower(c) ==
    IF \E k \in 1..26 : UpperCase[k] = c
    THEN LowerCase[CHOOSE k \in 1..26 : UpperCase[k] = c]
    ELSE c

\* A pattern is a sequence of character classes; the empty class stands for `.*`
Lit(s) == [k \in 1..Len(s) |-> {s[k]}]
AnyRun == <<{}>>
LineTerminators == {"\n", "\r"}

RECURSIVE MatchAt(_, _, _, _)
MatchAt(pat, s, pi, si) ==
    IF pi > Len(pat) THEN TRUE
    ELSE IF pat[pi] = {}
    THEN \E k \in si..(Len(s) + 1) :
             /\ \A j \in si..(k - 1) : s[j] \notin LineTerminators
             /\ MatchAt(pat, s, pi + 1, k)
    ELSE /\ si <= Len(s)
         /\ Lower(s[si]) \in pat[pi]
         /\ MatchAt(pat, s, pi + 1, si + 1)

\* pattern.test(sentence)
Test(pat, s) == \E si \in 1..(Len(s) + 1) : MatchAt(pat, s, 1, si)

agentPatterns ==
    << Lit(<<"h", "a", "b", "l", "o", " ", "d", "e", " ", "p", "a", "r", "t", "e", " ", "d", "e">>),
       Lit(<<"m", "e", " ", "c", "o", "m", "u", "n", "i", "c", "o", " ", "c", "o", "n">>),
       Lit(<<"l", "e", " ", "l", "l", "a", "m", "o", " ", "p", "o", "r">>),
       Lit(<<"d", "e", "j", "a", "r">>) \o <<{EAcute, "|", "e"}>>
           \o Lit(<<" ", "r", "e", "g", "i", "s", "t", "r", "o">>),
       Lit(<<"n", "e", "c", "e", "s", "i", "t", "a", " ", "a", "y", "u", "d", "a">>),
       Lit(<<"p", "u", "e", "d", "e", " ", "r", "e", "a", "l", "i", "z", "a", "r">>),
       Lit(<<"c", "a", "l", "l", "i", "n", "g", " ", "f", "r", "o", "m">>),
       Lit(<<"t", "h", "i", "s", " ", "i", "s">>) \o AnyRun \o Lit(<<"f", "r", "o", "m">>),
       Lit(<<"c", "a", "n", " ", "h", "e", "l", "p", " ", "y", "o", "u">>) >>

customerPatterns ==
    << Lit(<<"s">>) \o <<{IAcute, "|", "i"}>> \o Lit(<<" ", "s", "e">>)
           \o <<{NTilde, "|", "n"}>> \o Lit(<<"o", "r", "i", "t", "a">>),
       Lit(<<"s">>) \o <<{IAcute, "|", "i"}>> \o Lit(<<" ", "s", "e">>)
           \o <<{NTilde, "|", "n"}>> \o Lit(<<"o", "r">>),
       Lit(<<"u", "n", " ", "g", "u", "s", "t", "o">>),
       Lit(<<"o", "k", "a", "y">>),
       Lit(<<"y", "e", "s">>),
       Lit(<<"n", "o", " ", "p", "r", "o", "b", "l", "e", "m">>) >>

isAgent(sentence) == \E k \in 1..Len(agentPatterns) : Test(agentPatterns[k], sentence)
isCustomer(sentence) == \E k \in 1..Len(customerPatterns) : Test(customerPatterns[k], sentence)

\* the label with the customer patterns tried first
InferredSpeakerCustomerFirst(sentence, index) ==
    IF isCustomer(sentence) THEN <<"C", "u", "s", "t", "o", "m", "e", "r">>
    ELSE IF isAgent(sentence) THEN <<"A", "g", "e", "n", "t">>
    ELSE IF index % 2 = 0 THEN <<"A", "g", "e", "n", "t">>
    ELSE <<"C", "u", "s", "t", "o", "m", "e", "r">>

\* the label of the sentence at 0-based position index
InferredSpeaker(sentence, index) ==
    IF isAgent(sentence) THEN <<"A", "g", "e", "n", "t">>
    ELSE IF isCustomer(sentence) THEN <<"C", "u", "s", "t", "o", "m", "e", "r">>
    ELSE IF index % 2 = 0 THEN <<"A", "g", "e", "n", "t">>
    ELSE <<"C", "u", "s", "t", "o", "m", "e", "r">>

\* sentences.map((sentence, index) => `${speaker}: ${sentence}`).join('\n')
InferredConversation(sentences) ==
    Join([k \in 1..Len(sentences) |->
              InferredSpeaker(sentences[k], k - 1) \o <<":", " ">> \o sentences[k]],
         <<"\n">>)

\* transcriptText as the prompt embeds it
NormalizedText(ts) ==
    LET text == PreparedText(ts)
    IN  IF ~HasSpeakerSeparation(ts) /\ text # <<>> /\ Len(Sentences(text)) > 0
        THEN InferredConversation(Sentences(text))
        ELSE text

----------------------------------------------------------------------------
(* analyzeConversationFlow: the request *)

PromptHeadLen == 123
CaveatLen == 210
PromptMidLen == 14
PromptTailLen == 1555
FallbackPromptBudget == 3000

Min(a, b) == IF a < b THEN a ELSE b
Max(a, b) == IF a < b THEN b ELSE a

\* the template literal: whether the NOTE line is there, the transcript embedded,
\* and how many characters of the text after the transcript are kept
\* a template that leaves the NOTE line out once the text carries inferred labels
PromptCaveatForRawText(text, separated) ==
    [caveat |-> ~separated /\ text # <<>> /\ Head(text) \notin {"A", "C"},
     transcript |-> text, tail |-> PromptTailLen]

Prompt(text, separated) == [caveat |-> ~separated, transcript |-> text, tail |-> PromptTailLen]

\* prompt.substring(0, 3000)
TruncatedPrompt(prompt) ==
    LET before == PromptHeadLen + (IF prompt.caveat THEN CaveatLen ELSE 0) + PromptMidLen
        room == Max(0, FallbackPromptBudget - before)
    IN  [caveat |-> prompt.caveat,
         transcript |-> Substring0(prompt.transcript, room),
         tail |-> Min(prompt.tail, Max(0, room - Len(prompt.transcript)))]

PrimaryRequest(prompt) == [model |-> "gpt-4-0125-preview", user |-> prompt]
FallbackRequest(prompt) == [model |-> "gpt-3.5-turbo", user |-> TruncatedPrompt(prompt)]

----------------------------------------------------------------------------
(* analyzeConversationFlow: interpreting the response.  The message        *)
(* content is a sequence of lexical tokens: the braces, a word of prose,   *)
(* the literal null, and Members, the serialized properties of the         *)
(* response's object (its body).                                           *)

Members == "<members>"
JsonTokens == {"{", "}", "x", "null", Members}

\* a response whose choices[0].message exists, and one without it
Response(content, body) == [t |-> "ok", content |-> content, body |-> body]
MalformedResponse == [t |-> "malformed", content |-> Undef, body |-> NullFlow]
NoResponse == [t |-> "none", content |-> Undef, body |-> NullFlow]

NoFlow == [t |-> "none", v |-> <<>>, nodes |-> Undef, edges |-> Undef, globalInstructions |-> Undef]
EmptyObject == Flow(Undef, Undef, Undef)

\* JSON.parse on a token text
ParseTokens(toks, body) ==
    IF toks = <<"null">> THEN [ok |-> TRUE, val |-> NullFlow]
    ELSE IF toks = <<"{", "}">> THEN [ok |-> TRUE, val |-> EmptyObject]
    ELSE IF toks = <<"{", Members, "}">> THEN [ok |-> TRUE, val |-> body]
    ELSE [ok |-> FALSE, val |-> NoFlow]

\* JSON.parse(messageContent): null reads as the text 'null', undefined is a SyntaxError
JSONParse(content, body) ==
    CASE content.t = "str" -> ParseTokens(content.v, body)
      [] content.t = "null" -> [ok |-> TRUE, val |-> NullFlow]
      [] OTHER -> [ok |-> FALSE, val |-> NoFlow]

\* messageContent?.match(/\{[\s\S]*\}/): greedy, from the first { to the last }
FirstOpen(toks) == CHOOSE i \in 1..Len(toks) : toks[i] = "{" /\ \A j \in 1..(i - 1) : toks[j] # "{"
LastClose(toks) ==
    CHOOSE i \in 1..Len(toks) : toks[i] = "}" /\ \A j \in (i + 1)..Len(toks) : toks[j] # "}"
HasMatch(content) ==
    /\ content.t = "str"
    /\ \E i, j \in 1..Len(content.v) : i < j /\ content.v[i] = "{" /\ content.v[j] = "}"
\* the same with a lazy quantifier: from the first { to the first } after it
JsonMatchLazy(content) ==
    SubSeq(content.v, FirstOpen(content.v),
           CHOOSE j \in (FirstOpen(content.v) + 1)..Len(content.v) :
               /\ content.v[j] = "}"
               /\ \A m \in (FirstOpen(content.v) + 1)..(j - 1) : content.v[m] # "}")

JsonMatch(content) == SubSeq(content.v, FirstOpen(content.v), LastClose(content.v))

\* flowData after the parse and the extraction, NoFlow when it is still unset
ParsedFlow(content, body) ==
    IF JSONParse(content, body).ok THEN JSONParse(content, body).val
    ELSE IF HasMatch(content) /\ ParseTokens(JsonMatch(content), body).ok
    THEN ParseTokens(JsonMatch(content), body).val
    ELSE NoFlow

\* whether the catch block of the parse returns the fallback flow: if (!flowData)
ReturnsFallback(content, body) ==
    /\ ~JSONParse(content, body).ok
    /\ (ParsedFlow(content, body).t = "none" \/ ~Truthy(ParsedFlow(content, body)))

----------------------------------------------------------------------------
(* analyzeConversationFlow: the values it returns *)

Result(nodes, edges, globalInstructions, diagram) ==
    [nodes |-> nodes, edges |-> edges, globalInstructions |-> globalInstructions,
     mermaidDiagram |-> diagram]
NoResult == Result(Undef, Undef, Undef, Undef)

NoTranscriptDiagram == <<"graph TD\n", "    Start[No transcript available]">>
PrepErrorDiagram == <<"graph TD\n", "    Error[Error preparing transcript]">>
ProcessingErrorDiagram == <<"graph TD\n", "    Error[Error Processing Conversation]">>

EmptyTranscriptResult == Result(Arr(<<>>), Arr(<<>>), Undef, Str(NoTranscriptDiagram))
PrepErrorResult == Result(Arr(<<>>), Arr(<<>>), Undef, Str(PrepErrorDiagram))

\* the fallback flow is returned as it is, without a mermaidDiagram property
FallbackResult == Result(DefaultFlow.nodes, DefaultFlow.edges, DefaultFlow.globalInstructions, Undef)

ErrorNode ==
    Node(Str(<<"error">>), Str(<<"greeting">>), Str(<<"E", "r", "r", "o", "r", " ", "P", "r", "o", "c", "e", "s", "s", "i", "n", "g">>),
         Str(<<"A", "n", " ", "e", "r", "r", "o", "r", " ", "o", "c", "c", "u", "r", "r", "e", "d", " ", "p", "r", "o", "c", "e", "s", "s", "i", "n", "g",
               " ", "t", "h", "e", " ", "c", "o", "n", "v", "e", "r", "s", "a", "t", "i", "o", "n", ".", " ", "P", "l", "e", "a", "s", "e", " ", "t", "r", "y", " ", "a", "g", "a", "i", "n", ".">>))
ErrorResult ==
    Result(Arr(<<ErrorNode>>), Arr(<<>>), Str(<<"Error occurred during processing">>),
           Str(ProcessingErrorDiagram))

\* { ...flowData, mermaidDiagram }: a non-object spreads to nothing
Spread(fd, diagram) ==
    IF fd.t = "obj" THEN Result(fd.nodes, fd.edges, fd.globalInstructions, Str(diagram))
    ELSE Result(Undef, Undef, Undef, Str(diagram))

Return(value) == [k |-> "return", v |-> value]
Throw == [k |-> "throw", v |-> NoResult]

\* from the check of the response structure to the return of the try block
InterpretResponse(resp) ==
    IF resp.t # "ok" THEN Throw
    ELSE IF ReturnsFallback(resp.content, resp.body) THEN Return(FallbackResult)
    ELSE Return(Spread(ParsedFlow(resp.content, resp.body),
                       generateMermaidDiagram(ParsedFlow(resp.content, resp.body))))

\* a catch block that lets the error through
CatchAllRethrow(outcome) == outcome

\* catch (error) { ... return the error flow }
CatchAll(outcome) == IF outcome.k = "throw" THEN Return(ErrorResult) ELSE outcome

Continue == [k |-> "continue", v |-> NoResult]

\* the first try block without its check of an empty transcriptText
PrepareNoEmptyCheck(ts) == IF PrepThrows(ts) THEN Return(PrepErrorResult) ELSE Continue

\* the first try block: its two early returns, or on to the prompt
Prepare(ts) ==
    IF PrepThrows(ts) THEN Return(PrepErrorResult)
    ELSE IF PreparedText(ts) = <<>> THEN Return(EmptyTranscriptResult)
    ELSE Continue

----------------------------------------------------------------------------
(* Inputs of analyzeConversationFlow *)

MaxText == 4

SpeakerA == <<"A">>
SpeakerB == <<"B">>

MixedText ==
        <<"O", "k", "a", "y", ".", " ", "Y", "e", "s", " ", "c", "a", "n", " ", "h", "e", "l",
          "p", " ", "y", "o", "u", "!", " ", ".", " ", "B", "y", "e", "?", " ", "S",
          "o">>

TranscriptionSamples ==
    { \* one file, nothing transcribed
      <<Transcription(Str(<<>>), <<>>)>>,
      \* one file, two speakers
      <<Transcription(Str(<<"H", "i", ".", " ", "Y", "e", "s">>),
                      <<Utterance(SpeakerA, <<"H", "i">>), Utterance(SpeakerB, <<"Y", "e", "s">>)>>)>>,
      \* one file, no utterances
      <<Transcription(Str(<<"H", "e", "l", "l", "o", " ", "t", "h", "e", "r", "e", ".", " ", "O", "k", "a", "y", "!", " ", "B", "y", "e">>), <<>>)>>,
      \* one file, a single speaker
      <<Transcription(Str(<<"T", "h", "i", "s", " ", "i", "s", " ", "A", "n", "n", " ", "c", "a", "l", "l", "i", "n", "g", " ", "f", "r", "o", "m", " ", "A", "c", "m", "e", ".", " ", "F", "i", "n", "e">>),
                      <<Utterance(SpeakerA, <<"T", "h", "i", "s", " ", "i", "s", " ", "A", "n", "n", " ", "c", "a", "l", "l", "i", "n", "g", " ", "f", "r", "o", "m", " ", "A", "c", "m", "e", ".", " ", "F", "i", "n", "e">>)>>)>>,
      \* two files, nothing transcribed in either
      <<Transcription(Str(<<>>), <<>>), Transcription(Null, <<>>)>>,
      <<Transcription(Str(<<>>), <<>>), Transcription(Str(<<>>), <<>>)>>,
      \* an utterance list with a hole
      <<Transcription(Str(<<"H", "i">>), <<NullUtterance>>)>>,
      \* one file, speakers A, B, A, B
      <<Transcription(Str(<<"H", "i", ".", " ", "Y", "e", "s", ".", " ", "O", "k", ".", " ", "N", "o">>),
                      <<Utterance(SpeakerA, <<"H", "i">>), Utterance(SpeakerB, <<"Y", "e", "s">>),
                        Utterance(SpeakerA, <<"O", "k">>), Utterance(SpeakerB, <<"N", "o">>)>>)>>,
      \* one file, speakers A, A, A, and a text that is not the utterances joined
      <<Transcription(Str(<<"G", "o", "?", " ", "y", "e", "s", "!", "!", " ", "S", "o">>),
                      <<Utterance(SpeakerA, <<"u", "1">>), Utterance(SpeakerA, <<"u", "2">>),
                        Utterance(SpeakerA, <<"u", "3">>)>>)>>,
      \* one file, no utterances: a customer phrase first, a sentence with an agent
      \* and a customer phrase, a blank piece, and two sentences with neither
      <<Transcription(Str(MixedText), <<>>)>>,
      \* two files, one speaker in each
      <<Transcription(Str(<<"H", "i">>), <<Utterance(SpeakerA, <<"H", "i">>)>>),
        Transcription(Str(<<"Y", "o">>), <<Utterance(SpeakerB, <<"Y", "o">>)>>)>> }

\* the objects a response may serialize
BodySamples ==
    { Flow(Arr(<<DefaultNode1, DefaultNode2>>), Arr(<<Edge(Id1, Id2, Undef)>>),
           Str(<<"Be brief">>)),
      \* a number where fullPrompt should be a string
      Flow(Arr(<<DefaultNode1, Node(Id2, Undef, Str(<<"a", "!">>), Num(<<"7">>))>>),
           Arr(<<Edge(Id1, Id2, Undef)>>), Str(<<"Be brief">>)),
      \* a number where condition should be a string
      Flow(Arr(<<DefaultNode1, DefaultNode2>>), Arr(<<Edge(Id1, Id2, Num(<<"7">>))>>), Undef),
      \* no nodes property, nodes that are not an array, no node at all
      Flow(Undef, Undef, Str(<<"Be brief">>)),
      Flow(Str(<<"n", "o", "d", "e", "s">>), Arr(<<>>), Undef),
      Flow(Arr(<<>>), Arr(<<>>), Undef),
      \* a node without id and a dangling edge
      Flow(Arr(<<Node(Undef, Str(<<"question">>), Str(<<"L", "o", "s", "t">>), Undef),
                 DefaultNode2>>),
           Arr(<<Edge(IdX, Id2, Undef)>>), Undef) }

Responses ==
    { Response(Str(toks), body) : toks \in SeqsUpTo(JsonTokens, MaxText), body \in BodySamples }
    \cup { Response(Null, NullFlow), Response(Undef, NullFlow), MalformedResponse }

\* a response is told from another by its text and by the object its Members stand for
UsesBody(resp) == resp.t = "ok" /\ resp.content.t = "str"
                  /\ \E k \in 1..Len(resp.content.v) : resp.content.v[k] = Members
CanonicalBody == CHOOSE b \in BodySamples : b.nodes = Arr(<<>>)
DistinctResponses == {r \in Responses : r.t = "ok" /\ r.content.t = "str" /\ ~UsesBody(r)
                                            => r.body \in {CanonicalBody, NullFlow}}

----------------------------------------------------------------------------
(* analyzeConversationFlow, one action per stretch between awaits *)

NoCalls == [primary |-> "none", fallback |-> "none"]

\* the page before any file is chosen
IdleClient ==
    /\ selectedFiles = <<>>
    /\ processBtnDisabled = TRUE
    /\ fetches = 0
    /\ sentRequests = {}

\* the handler's storeResult before storeConversationFlow has returned
NoStore == [success |-> FALSE, flowId |-> Undef, error |-> "<not called>"]

\* no response sent yet
NoHttpResponse ==
    [status |-> 0, success |-> FALSE, transcriptions |-> <<>>, flowData |-> NoResult,
     flowId |-> Null, storageResult |-> NoStore, error |-> "<none>"]

IdleUpload ==
    /\ env = [ASSEMBLYAI_API_KEY |-> "set", OPENAI_API_KEY |-> "set"]
    /\ files = <<>>
    /\ fileIdx = 0
    /\ tstatus = "none"
    /\ polls = 0
    /\ audioFileData = <<>>
    /\ storeCalls = 0
    /\ storeResult = NoStore
    /\ audioUploads = <<>>
    /\ unlinked = <<>>
    /\ httpResponse = NoHttpResponse
    /\ runs = <<>>
    /\ analyzeCalls = 0
    /\ IdleClient

IdleRender ==
    /\ flowData = NoFlow
    /\ mermaidDiagram = NoDiagram
    /\ prevDiagram = NoDiagram
    /\ otherDiagram = NoDiagram
    /\ renderCalls = 0

IdleSynth ==
    /\ transcriptions = <<>>
    /\ transcriptText = <<>>
    /\ hasSpeakerSeparation = FALSE
    /\ requests = <<>>
    /\ calls = NoCalls
    /\ response = NoResponse
    /\ result = NoResult

Init ==
    /\ pc = "start"
    /\ transcriptions \in TranscriptionSamples
    /\ transcriptText = <<>>
    /\ hasSpeakerSeparation = FALSE
    /\ requests = <<>>
    /\ calls = NoCalls
    /\ response = NoResponse
    /\ result = NoResult
    /\ IdleRender
    /\ IdleUpload

\* from the entry to the first await, or to an early return
Start ==
    /\ pc = "start"
    /\ IF Prepare(transcriptions).k = "return"
       THEN /\ result' = Prepare(transcriptions).v
            /\ pc' = "done"
            /\ UNCHANGED <<transcriptText, requests, calls>>
       ELSE /\ transcriptText' = NormalizedText(transcriptions)
            /\ requests' = <<PrimaryRequest(Prompt(NormalizedText(transcriptions),
                                                   HasSpeakerSeparation(transcriptions)))>>
            /\ calls' = [calls EXCEPT !.primary = "pending"]
            /\ pc' = "primary"
            /\ UNCHANGED result
    /\ hasSpeakerSeparation' =
           IF PrepThrows(transcriptions) THEN FALSE ELSE HasSpeakerSeparation(transcriptions)
    /\ UNCHANGED <<transcriptions, response, renderVars, uploadVars>>

\* the rest of the try block once a response is in, and the catch around it
Finish(resp, call) ==
    LET outcome == CatchAll(InterpretResponse(resp))
        parsed == IF resp.t = "ok" /\ ~ReturnsFallback(resp.content, resp.body)
                  THEN ParsedFlow(resp.content, resp.body) ELSE NoFlow
    IN  /\ response' = resp
        /\ calls' = [calls EXCEPT ![call] = "resolved"]
        /\ flowData' = parsed
        /\ mermaidDiagram' = IF parsed.t = "none" THEN NoDiagram ELSE generateMermaidDiagram(parsed)
        /\ renderCalls' = IF parsed.t = "none" THEN renderCalls ELSE renderCalls + 1
        /\ result' = outcome.v
        /\ pc' = IF outcome.k = "throw" THEN "threw" ELSE "done"
        /\ UNCHANGED <<transcriptions, transcriptText, hasSpeakerSeparation, requests,
                       prevDiagram, otherDiagram, uploadVars>>

\* the GPT-4 call resolves
PrimaryResolve ==
    /\ pc = "primary"
    /\ \E resp \in DistinctResponses : Finish(resp, "primary")

\* the GPT-4 call rejects: the GPT-3.5 call is made
PrimaryReject ==
    /\ pc = "primary"
    /\ requests' = Append(requests, FallbackRequest(requests[1].user))
    /\ calls' = [primary |-> "rejected", fallback |-> "pending"]
    /\ pc' = "fallback"
    /\ UNCHANGED <<transcriptions, transcriptText, hasSpeakerSeparation, response, result,
                   renderVars, uploadVars>>

\* the GPT-3.5 call resolves
FallbackResolve ==
    /\ pc = "fallback"
    /\ \E resp \in DistinctResponses : Finish(resp, "fallback")

\* a rejected GPT-3.5 call tried once more
FallbackRejectRetry ==
    /\ pc = "fallback"
    /\ requests' = Append(requests, requests[Len(requests)])
    /\ UNCHANGED <<pc, transcriptions, transcriptText, hasSpeakerSeparation, calls, response,
                   result, renderVars, uploadVars>>

\* the GPT-3.5 call rejects too: the error is rethrown to the outer catch
FallbackReject ==
    /\ pc = "fallback"
    /\ result' = CatchAll(Throw).v
    /\ pc' = IF CatchAll(Throw).k = "throw" THEN "threw" ELSE "done"
    /\ calls' = [calls EXCEPT !.fallback = "rejected"]
    /\ UNCHANGED <<transcriptions, transcriptText, hasSpeakerSeparation, requests, response,
                   renderVars, uploadVars>>

Next == Start \/ PrimaryResolve \/ PrimaryReject \/ FallbackResolve \/ FallbackReject

Spec == Init /\ [][Next]_vars

----------------------------------------------------------------------------
(* The renderer, called on a graph, again on the same graph, with renders  *)
(* for other requests in between.                                          *)

InitRender ==
    /\ pc = "render"
    /\ flowData \in RenderInputs
    /\ mermaidDiagram = NoDiagram
    /\ prevDiagram = NoDiagram
    /\ otherDiagram = NoDiagram
    /\ renderCalls = 0
    /\ IdleSynth
    /\ IdleUpload

Render ==
    /\ pc = "render"
    /\ mermaidDiagram' = generateMermaidDiagram(flowData)
    /\ renderCalls' = renderCalls + 1
    /\ pc' = "rendered"
    /\ UNCHANGED <<flowData, prevDiagram, otherDiagram, synthVars, uploadVars>>

RenderAgain ==
    /\ pc = "rendered"
    /\ prevDiagram' = mermaidDiagram
    /\ mermaidDiagram' = generateMermaidDiagram(flowData)
    /\ renderCalls' = renderCalls + 1
    /\ pc' = "rerendered"
    /\ UNCHANGED <<flowData, otherDiagram, synthVars, uploadVars>>

RenderOther ==
    /\ pc = "rendered"
    /\ otherDiagram = NoDiagram
    /\ \E g \in OtherInputs : otherDiagram' = generateMermaidDiagram(g)
    /\ renderCalls' = renderCalls + 1
    /\ UNCHANGED <<pc, flowData, mermaidDiagram, prevDiagram, synthVars, uploadVars>>

NextRender == Render \/ RenderAgain \/ RenderOther

SpecRender == InitRender /\ [][NextRender]_vars

----------------------------------------------------------------------------
(* The persistence collaborator of lib/supabase *)

FlowId == Str(<<"flow-1">>)

\* what the insert into conversation_flows, and then into prompts, may do
DbOutcomes == {"inserted", "no row", "insert error", "insert rejected", "prompts rejected"}

\* flowData.nodes.map(node => ... node.id ...) raises a TypeError
PromptsMapThrows(fd) ==
    /\ Truthy(fd.nodes)
    /\ \/ ~IsArray(fd.nodes)
       \/ \E i \in 1..Len(fd.nodes.v) : fd.nodes.v[i].t # "obj"

\* the try block of storeConversationFlow
StoreBody(fd, db) ==
    IF db \in {"insert error", "insert rejected"} THEN Throw
    ELSE IF db # "no row" /\ PromptsMapThrows(fd) THEN Throw
    ELSE IF db = "prompts rejected" /\ Truthy(fd.nodes) THEN Throw
    ELSE Return([success |-> TRUE, flowId |-> IF db = "no row" THEN Undef ELSE FlowId,
                 error |-> "<none>"])

\* storeConversationFlow without its catch block
storeConversationFlowNoCatch(fd, db) == StoreBody(fd, db)

\* storeConversationFlow: its catch block turns every error into a report
storeConversationFlow(fd, db) ==
    IF StoreBody(fd, db).k = "throw"
    THEN Return([success |-> FALSE, flowId |-> Undef, error |-> db])
    ELSE StoreBody(fd, db)

\* what reading the temp file, the upload to storage and the insert into audio_files may do
StorageOutcomes == {"stored", "read rejected", "upload error", "insert rejected"}

\* uploadAudioFile: its catch block turns every error into a report
uploadAudioFile(file, flowId, outcome) ==
    Return([success |-> outcome = "stored", file |-> file.originalname, flowId |-> flowId])

\* ensureStorageBucket returns true or false and never throws
ensureStorageBucket(outcome) == Return(outcome = "ok")

----------------------------------------------------------------------------
(* The upload handler POST /api/upload, one action per stretch between awaits *)

MaxFiles == 2
MaxPolls == 2

File(i) == [path |-> <<"uploads/", i>>, originalname |-> <<"audio", i>>]
FilesOf(n) == [i \in 1..n |-> File(i)]

KeyStates == {"set", "unset", "placeholder"}
Configured(key) == key = "set"

\* the transcripts AssemblyAI may complete with
CompletedTranscripts ==
    { [text |-> Str(<<"H", "i", ".", " ", "Y", "e", "s">>),
       utterances |-> Arr(<<Utterance(SpeakerA, <<"H", "i">>), Utterance(SpeakerB, <<"Y", "e", "s">>)>>)],
      [text |-> Str(<<"O", "k", "a", "y", ".", " ", "B", "y", "e">>), utterances |-> Null],
      [text |-> Null, utterances |-> Undef] }

PendingStatuses == {"queued", "processing"}

\* a call to the text generator that rejected
Rejected == [t |-> "rejected", content |-> Undef, body |-> NullFlow]

\* what the GPT-4 call, and the GPT-3.5 call after it, may come back with
GenerationSamples ==
    { <<Response(Str(<<"{", Members, "}">>), b), Rejected>> : b \in BodySamples }
    \cup { <<Response(Str(<<"x">>), NullFlow), Rejected>>,
           <<Response(Str(<<"null">>), NullFlow), Rejected>>,
           <<MalformedResponse, Rejected>>,
           <<Rejected, Response(Str(<<"{", Members, "}">>), CanonicalBody)>>,
           <<Rejected, Rejected>> }

\* analyzeConversationFlow from its entry to its return
analyzeConversationFlow(ts, primary, fallback) ==
    IF Prepare(ts).k = "return" THEN Prepare(ts)
    ELSE IF primary.t # "rejected" THEN CatchAll(InterpretResponse(primary))
    ELSE IF fallback.t # "rejected" THEN CatchAll(InterpretResponse(fallback))
    ELSE CatchAll(Throw)

InitUpload ==
    /\ pc = "received"
    /\ env \in [ASSEMBLYAI_API_KEY : KeyStates, OPENAI_API_KEY : KeyStates]
    /\ files \in {FilesOf(n) : n \in 0..MaxFiles}
    /\ fileIdx = 0
    /\ tstatus = "none"
    /\ polls = 0
    /\ audioFileData = <<>>
    /\ storeCalls = 0
    /\ storeResult = NoStore
    /\ audioUploads = <<>>
    /\ unlinked = <<>>
    /\ httpResponse = NoHttpResponse
    /\ runs = <<>>
    /\ analyzeCalls = 0
    /\ IdleClient
    /\ IdleRender
    /\ IdleSynth

\* catch (error) { res.status(500).json({ success: false, ... }) }
Respond500(message) ==
    /\ httpResponse' = [NoHttpResponse EXCEPT !.status = 500, !.error = message]
    /\ pc' = "sent"

\* from the entry to the await of ensureStorageBucket
Receive ==
    /\ pc = "received"
    /\ IF ~Configured(env.ASSEMBLYAI_API_KEY)
       THEN Respond500("AssemblyAI API key is not configured")
       ELSE IF ~Configured(env.OPENAI_API_KEY)
       THEN Respond500("OpenAI API key is not configured")
       ELSE IF Len(files) = 0
       THEN Respond500("No files received in upload request")
       ELSE /\ pc' = "ensureStorageBucket"
            /\ UNCHANGED httpResponse
    /\ UNCHANGED <<clientVars, runs, analyzeCalls, env, files, fileIdx, tstatus, polls, audioFileData, storeCalls, storeResult,
                   audioUploads, unlinked, renderVars, synthVars>>

\* ensureStorageBucket returns: the loop over req.files begins
BucketEnsured ==
    /\ pc = "ensureStorageBucket"
    /\ \E outcome \in {"ok", "failed"} : ensureStorageBucket(outcome).k = "return"
    /\ fileIdx' = 1
    /\ pc' = "files.upload"
    /\ UNCHANGED <<clientVars, runs, analyzeCalls, env, files, tstatus, polls, audioFileData, storeCalls, storeResult,
                   audioUploads, unlinked, httpResponse, renderVars, synthVars>>

\* assemblyAI.files.upload settles
FileUploaded ==
    /\ pc = "files.upload"
    /\ \E outcome \in {"url", "no url", "rejected"} :
           IF outcome = "url"
           THEN pc' = "transcribe" /\ UNCHANGED httpResponse
           ELSE Respond500("Failed to upload file to AssemblyAI")
    /\ UNCHANGED <<clientVars, runs, analyzeCalls, env, files, fileIdx, tstatus, polls, audioFileData, storeCalls, storeResult,
                   audioUploads, unlinked, renderVars, synthVars>>

\* a loop over req.files that is left after its first completed transcript
AfterStatusFirstFileOnly(status, transcript) ==
    /\ tstatus' = status
    /\ IF status = "error"
       THEN /\ Respond500("Transcription failed")
            /\ UNCHANGED <<fileIdx, polls, audioFileData, transcriptions>>
       ELSE IF status = "completed"
       THEN /\ audioFileData' = Append(audioFileData, files[fileIdx])
            /\ transcriptions' =
                   Append(transcriptions,
                          Transcription(transcript.text,
                                        IF Truthy(transcript.utterances)
                                        THEN transcript.utterances.v ELSE <<>>))
            /\ polls' = 0
            /\ fileIdx' = 0 /\ pc' = "analyzeConversationFlow"
            /\ UNCHANGED httpResponse
       ELSE /\ polls' = polls + 1
            /\ pc' = "transcripts.get"
            /\ UNCHANGED <<fileIdx, audioFileData, transcriptions, httpResponse>>
    /\ UNCHANGED <<clientVars, runs, analyzeCalls, env, files, storeCalls, storeResult, audioUploads, unlinked, renderVars,
                   transcriptText, hasSpeakerSeparation, requests, calls, response, result>>

\* a polling loop that waits for the status completed alone
AfterStatusPollsOnError(status, transcript) ==
    /\ tstatus' = status
    /\ IF status = "error"
       THEN /\ pc' = "transcripts.get"
            /\ UNCHANGED <<fileIdx, polls, audioFileData, transcriptions, httpResponse>>
       ELSE IF status = "completed"
       THEN /\ audioFileData' = Append(audioFileData, files[fileIdx])
            /\ transcriptions' =
                   Append(transcriptions,
                          Transcription(transcript.text,
                                        IF Truthy(transcript.utterances)
                                        THEN transcript.utterances.v ELSE <<>>))
            /\ polls' = 0
            /\ IF fileIdx < Len(files)
               THEN fileIdx' = fileIdx + 1 /\ pc' = "files.upload"
               ELSE fileIdx' = 0 /\ pc' = "analyzeConversationFlow"
            /\ UNCHANGED httpResponse
       ELSE /\ polls' = polls + 1
            /\ pc' = "transcripts.get"
            /\ UNCHANGED <<fileIdx, audioFileData, transcriptions, httpResponse>>
    /\ UNCHANGED <<clientVars, runs, analyzeCalls, env, files, storeCalls, storeResult, audioUploads, unlinked, renderVars,
                   transcriptText, hasSpeakerSeparation, requests, calls, response, result>>

\* from a transcript status to the next await: the polling loop, the pushes
\* on audioFileData and transcriptions, and the call of analyzeConversationFlow
AfterStatus(status, transcript) ==
    /\ tstatus' = status
    /\ IF status = "error"
       THEN /\ Respond500("Transcription failed")
            /\ UNCHANGED <<fileIdx, polls, audioFileData, transcriptions>>
       ELSE IF status = "completed"
       THEN /\ audioFileData' = Append(audioFileData, files[fileIdx])
            /\ transcriptions' =
                   Append(transcriptions,
                          Transcription(transcript.text,
                                        IF Truthy(transcript.utterances)
                                        THEN transcript.utterances.v ELSE <<>>))
            /\ polls' = 0
            /\ IF fileIdx < Len(files)
               THEN fileIdx' = fileIdx + 1 /\ pc' = "files.upload"
               ELSE fileIdx' = 0 /\ pc' = "analyzeConversationFlow"
            /\ UNCHANGED httpResponse
       ELSE /\ polls' = polls + 1
            /\ pc' = "transcripts.get"
            /\ UNCHANGED <<fileIdx, audioFileData, transcriptions, httpResponse>>
    /\ UNCHANGED <<clientVars, runs, analyzeCalls, env, files, storeCalls, storeResult, audioUploads, unlinked, renderVars,
                   transcriptText, hasSpeakerSeparation, requests, calls, response, result>>

\* a transcript as transcribe or get may return it
Settled(status, transcript) ==
    \/ status \in PendingStatuses /\ polls < MaxPolls /\ transcript = Null
    \/ status = "error" /\ transcript = Null
    \/ status = "completed" /\ transcript \in CompletedTranscripts

TranscriptOutcomes == PendingStatuses \cup {"error", "completed"}

\* assemblyAI.transcripts.transcribe settles
Transcribed ==
    /\ pc = "transcribe"
    /\ \/ /\ Respond500("transcribe rejected")
          /\ UNCHANGED <<clientVars, runs, analyzeCalls, env, files, fileIdx, tstatus, polls, audioFileData, storeCalls,
                         storeResult, audioUploads, unlinked, renderVars, synthVars>>
       \/ \E status \in TranscriptOutcomes, transcript \in CompletedTranscripts \cup {Null} :
              Settled(status, transcript) /\ AfterStatus(status, transcript)

\* the one second wait is over and assemblyAI.transcripts.get settles
Polled ==
    /\ pc = "transcripts.get"
    /\ \/ /\ Respond500("get rejected")
          /\ UNCHANGED <<clientVars, runs, analyzeCalls, env, files, fileIdx, tstatus, polls, audioFileData, storeCalls,
                         storeResult, audioUploads, unlinked, renderVars, synthVars>>
       \/ \E status \in TranscriptOutcomes, transcript \in CompletedTranscripts \cup {Null} :
              Settled(status, transcript) /\ AfterStatus(status, transcript)

\* analyzeConversationFlow returns: storeConversationFlow is called
Analyzed ==
    /\ pc = "analyzeConversationFlow"
    /\ analyzeCalls' = analyzeCalls + 1
    /\ \E gen \in GenerationSamples :
           LET outcome == analyzeConversationFlow(transcriptions, gen[1], gen[2])
           IN  IF outcome.k = "throw"
               THEN Respond500("analyzeConversationFlow threw") /\ UNCHANGED result
               ELSE /\ result' = outcome.v
                    /\ pc' = "storeConversationFlow"
                    /\ UNCHANGED httpResponse
    /\ UNCHANGED <<clientVars, runs, env, files, fileIdx, tstatus, polls, audioFileData, storeCalls, storeResult,
                   audioUploads, unlinked, renderVars, transcriptions, transcriptText,
                   hasSpeakerSeparation, requests, calls, response>>

\* storeResult.success && storeResult.flowId
HasFlowId(sr) == sr.success /\ Truthy(sr.flowId)

\* res.json({ success: true, transcriptions, flowData, flowId, storageResult })
Respond200 ==
    /\ httpResponse' =
           [status |-> 200, success |-> TRUE, transcriptions |-> transcriptions,
            flowData |-> result,
            flowId |-> IF Truthy(storeResult.flowId) THEN storeResult.flowId ELSE Null,
            storageResult |-> storeResult, error |-> "<none>"]
    /\ pc' = "sent"

\* storeConversationFlow returns: the loop over audioFileData begins
Stored ==
    /\ pc = "storeConversationFlow"
    /\ storeCalls' = storeCalls + 1
    /\ \E db \in DbOutcomes :
           LET outcome == storeConversationFlow(result, db)
           IN  IF outcome.k = "throw"
               THEN Respond500("storeConversationFlow threw") /\ UNCHANGED <<storeResult, fileIdx>>
               ELSE /\ storeResult' = outcome.v
                    /\ fileIdx' = 1
                    /\ pc' = IF HasFlowId(outcome.v) THEN "uploadAudioFile" ELSE "unlink"
                    /\ UNCHANGED httpResponse
    /\ UNCHANGED <<clientVars, runs, analyzeCalls, env, files, tstatus, polls, audioFileData, audioUploads, unlinked,
                   renderVars, synthVars>>

\* uploadAudioFile returns: the temp file is unlinked next
AudioUploaded ==
    /\ pc = "uploadAudioFile"
    /\ \E o \in StorageOutcomes :
           LET outcome == uploadAudioFile(audioFileData[fileIdx], storeResult.flowId, o)
           IN  IF outcome.k = "throw"
               THEN Respond500("uploadAudioFile threw") /\ UNCHANGED audioUploads
               ELSE /\ audioUploads' = Append(audioUploads, outcome.v)
                    /\ pc' = "unlink"
                    /\ UNCHANGED httpResponse
    /\ UNCHANGED <<clientVars, runs, analyzeCalls, env, files, fileIdx, tstatus, polls, audioFileData, storeCalls, storeResult,
                   unlinked, renderVars, synthVars>>

\* fs.unlink settles: the next file, or the response
Unlinked ==
    /\ pc = "unlink"
    /\ \E removed \in BOOLEAN :
           IF ~removed
           THEN Respond500("unlink rejected") /\ UNCHANGED <<unlinked, fileIdx>>
           ELSE /\ unlinked' = Append(unlinked, audioFileData[fileIdx].path)
                /\ IF fileIdx < Len(audioFileData)
                   THEN /\ fileIdx' = fileIdx + 1
                        /\ pc' = IF HasFlowId(storeResult) THEN "uploadAudioFile" ELSE "unlink"
                        /\ UNCHANGED httpResponse
                   ELSE /\ Respond200
                        /\ UNCHANGED fileIdx
    /\ UNCHANGED <<clientVars, runs, analyzeCalls, env, files, tstatus, polls, audioFileData, storeCalls, storeResult,
                   audioUploads, renderVars, synthVars>>

NextUpload ==
    \/ Receive
    \/ BucketEnsured
    \/ FileUploaded
    \/ Transcribed
    \/ Polled
    \/ Analyzed
    \/ Stored
    \/ AudioUploaded
    \/ Unlinked

SpecUpload == InitUpload /\ [][NextUpload]_vars

\* the polling loop turning once more after polls has reached its cap: the
\* service reports the other pending status
PolledPendingAgain ==
    /\ pc = "transcripts.get"
    /\ polls = MaxPolls
    /\ \E status \in PendingStatuses : status # tstatus /\ tstatus' = status
    /\ UNCHANGED <<pc, clientVars, runs, analyzeCalls, env, files, fileIdx, polls, audioFileData,
                   storeCalls, storeResult, audioUploads, unlinked, httpResponse, renderVars,
                   synthVars>>

\* a poll after which the loop is left
PollLeavesLoop == Polled /\ pc' # "transcripts.get"

NextUploadLive == NextUpload \/ PolledPendingAgain

\* every await of the handler settles, and the transcription service does
\* not report a pending status for ever
SpecUploadLive ==
    InitUpload /\ [][NextUploadLive]_vars /\ WF_vars(NextUpload) /\ WF_vars(PollLeavesLoop)

----------------------------------------------------------------------------
(* Two invocations of analyzeConversationFlow served at the same time: each *)
(* has its own locals, and they interleave at their awaits.                *)

RunIds == {1, 2}

\* the locals of an invocation
Run(ts) ==
    [pc |-> "start", transcriptions |-> ts, transcriptText |-> <<>>,
     hasSpeakerSeparation |-> FALSE, prompt |-> Prompt(<<>>, FALSE), requests |-> <<>>,
     calls |-> NoCalls, response |-> NoResponse, result |-> NoResult]

\* what the two requests may carry, and what the generator may answer
ConcurrentTranscriptions ==
    { <<Transcription(Str(<<>>), <<>>)>>,
      <<Transcription(Str(<<"H", "i", ".", " ", "Y", "e", "s">>),
                      <<Utterance(SpeakerA, <<"H", "i">>), Utterance(SpeakerB, <<"Y", "e", "s">>)>>)>>,
      <<Transcription(Str(MixedText), <<>>)>> }

ConcurrentResponses ==
    { Response(Str(<<"{", Members, "}">>),
               Flow(Arr(<<DefaultNode1, DefaultNode2>>), Arr(<<Edge(Id1, Id2, Undef)>>),
                    Str(<<"Be brief">>))),
      Response(Str(<<"{", Members, "}">>), CanonicalBody),
      Response(Str(<<"x">>), NullFlow),
      MalformedResponse }

\* a prompt kept in one place for all invocations: the other invocation's, once it has started
PromptOfOtherRun(rs, r) ==
    IF rs[3 - r].pc # "start" THEN rs[3 - r].prompt ELSE rs[r].prompt

\* const prompt: a local of the invocation
PromptInScope(rs, r) == rs[r].prompt

InitConcurrent ==
    /\ pc = "serving"
    /\ runs \in [RunIds -> {Run(ts) : ts \in ConcurrentTranscriptions}]
    /\ analyzeCalls = 0
    /\ env = [ASSEMBLYAI_API_KEY |-> "set", OPENAI_API_KEY |-> "set"]
    /\ files = <<>>
    /\ fileIdx = 0
    /\ tstatus = "none"
    /\ polls = 0
    /\ audioFileData = <<>>
    /\ storeCalls = 0
    /\ storeResult = NoStore
    /\ audioUploads = <<>>
    /\ unlinked = <<>>
    /\ httpResponse = NoHttpResponse
    /\ IdleClient
    /\ IdleRender
    /\ IdleSynth

ConcurrentFrame ==
    UNCHANGED <<pc, renderVars, synthVars, clientVars, env, files, fileIdx, tstatus, polls, audioFileData,
                storeCalls, storeResult, audioUploads, unlinked, httpResponse, analyzeCalls>>

\* an invocation runs from its entry to its first await, or to an early return
RunStart(r) ==
    /\ runs[r].pc = "start"
    /\ LET ts == runs[r].transcriptions
           prompt == Prompt(NormalizedText(ts), HasSpeakerSeparation(ts))
       IN  runs' =
               [runs EXCEPT ![r] =
                   IF Prepare(ts).k = "return"
                   THEN [@ EXCEPT !.pc = "done", !.result = Prepare(ts).v,
                                  !.hasSpeakerSeparation =
                                      ~PrepThrows(ts) /\ HasSpeakerSeparation(ts)]
                   ELSE [@ EXCEPT !.pc = "primary",
                                  !.transcriptText = NormalizedText(ts),
                                  !.hasSpeakerSeparation = HasSpeakerSeparation(ts),
                                  !.prompt = prompt,
                                  !.requests = <<PrimaryRequest(prompt)>>,
                                  !.calls = [primary |-> "pending", fallback |-> "none"]]]
    /\ ConcurrentFrame

\* a call of the invocation resolves: it runs to its return
RunResolve(r) ==
    /\ runs[r].pc \in {"primary", "fallback"}
    /\ \E resp \in ConcurrentResponses :
           LET outcome == CatchAll(InterpretResponse(resp))
           IN  runs' =
                   [runs EXCEPT ![r] =
                       [@ EXCEPT !.pc = IF outcome.k = "throw" THEN "threw" ELSE "done",
                                 !.response = resp,
                                 !.calls = [@ EXCEPT ![runs[r].pc] = "resolved"],
                                 !.result = outcome.v]]
    /\ ConcurrentFrame

\* the GPT-4 call of the invocation rejects: it makes its GPT-3.5 call
RunPrimaryReject(r) ==
    /\ runs[r].pc = "primary"
    /\ runs' =
           [runs EXCEPT ![r] =
               [@ EXCEPT !.pc = "fallback",
                         !.requests = Append(@, FallbackRequest(PromptInScope(runs, r))),
                         !.calls = [primary |-> "rejected", fallback |-> "pending"]]]
    /\ ConcurrentFrame

\* the GPT-3.5 call of the invocation rejects too
RunFallbackReject(r) ==
    /\ runs[r].pc = "fallback"
    /\ runs' =
           [runs EXCEPT ![r] =
               [@ EXCEPT !.pc = IF CatchAll(Throw).k = "throw" THEN "threw" ELSE "done",
                         !.calls = [@ EXCEPT !.fallback = "rejected"],
                         !.result = CatchAll(Throw).v]]
    /\ ConcurrentFrame

NextConcurrent ==
    \E r \in RunIds : RunStart(r) \/ RunResolve(r) \/ RunPrimaryReject(r) \/ RunFallbackReject(r)

SpecConcurrent == InitConcurrent /\ [][NextConcurrent]_vars

----------------------------------------------------------------------------
(* The browser client (public/script.js): choosing files and sending them  *)

MaxBatch == 2
MaxFetches == 2

MB == 1024 * 1024
MaxSelected == 10
MAX_FILE_SIZE == 25 * 1024 * 1024
maxTotalSize == 40 * 1024 * 1024

BrowserFile(type, size) == [type |-> type, size |-> size]

\* the files a drop or a file dialog may deliver
BrowserFileSamples ==
    { BrowserFile("audio/mpeg", 20 * MB),
      BrowserFile("audio/wav", MAX_FILE_SIZE),
      BrowserFile("audio/mpeg", MAX_FILE_SIZE + 1),
      BrowserFile("image/png", MB) }

\* file.type.startsWith('audio/')
IsAudio(file) == file.type \in {"audio/mpeg", "audio/wav"}

\* selectedFiles.reduce((sum, file) => sum + file.size, 0)
RECURSIVE TotalSize(_)
TotalSize(fs) == IF fs = <<>> THEN 0 ELSE Head(fs).size + TotalSize(Tail(fs))

\* a click handler that sends whatever is selected
TotalAlwaysAllowed(fs) == TRUE

\* the check of the total size before the upload
TotalAllowed(fs) == ~(TotalSize(fs) > maxTotalSize)

\* selectedFiles.splice(index, 1), index 0-based
Splice(fs, index) ==
    [k \in 1..(Len(fs) - 1) |-> IF k <= index THEN fs[k] ELSE fs[k + 1]]

InitClient ==
    /\ pc = "page"
    /\ selectedFiles = <<>>
    /\ processBtnDisabled \in BOOLEAN
    /\ fetches = 0
    /\ sentRequests = {}
    /\ env = [ASSEMBLYAI_API_KEY |-> "set", OPENAI_API_KEY |-> "set"]
    /\ files = <<>>
    /\ fileIdx = 0
    /\ tstatus = "none"
    /\ polls = 0
    /\ audioFileData = <<>>
    /\ storeCalls = 0
    /\ storeResult = NoStore
    /\ audioUploads = <<>>
    /\ unlinked = <<>>
    /\ httpResponse = NoHttpResponse
    /\ runs = <<>>
    /\ analyzeCalls = 0
    /\ IdleRender
    /\ IdleSynth

ClientFrame ==
    UNCHANGED <<pc, renderVars, synthVars, env, files, fileIdx, tstatus, polls, audioFileData,
                storeCalls, storeResult, audioUploads, unlinked, httpResponse, runs,
                analyzeCalls>>

\* handleFiles(files) on a drop or on a change of the file input, with updateFileList
HandleFiles ==
    /\ \E batch \in SeqsUpTo(BrowserFileSamples, MaxBatch) :
           LET audioFiles == SelectSeq(batch, IsAudio)
               oversizedFiles == SelectSeq(audioFiles, LAMBDA f : f.size > MAX_FILE_SIZE)
           IN  IF \/ Len(audioFiles) = 0
                  \/ Len(selectedFiles) + Len(audioFiles) > MaxSelected
                  \/ Len(oversizedFiles) > 0
               THEN UNCHANGED <<selectedFiles, processBtnDisabled>>
               ELSE /\ selectedFiles' = selectedFiles \o audioFiles
                    /\ processBtnDisabled' = (Len(selectedFiles \o audioFiles) = 0)
    /\ UNCHANGED <<fetches, sentRequests>>
    /\ ClientFrame

\* a click on the Remove button of a listed file, with updateFileList
RemoveFile ==
    /\ \E index \in 0..(Len(selectedFiles) - 1) :
           /\ selectedFiles' = Splice(selectedFiles, index)
           /\ processBtnDisabled' = (Len(Splice(selectedFiles, index)) = 0)
    /\ UNCHANGED <<fetches, sentRequests>>
    /\ ClientFrame

\* a click on processBtn, up to the await of fetch
ClickProcess ==
    /\ ~processBtnDisabled
    /\ fetches < MaxFetches
    /\ IF Len(selectedFiles) = 0 \/ ~TotalAllowed(selectedFiles)
       THEN UNCHANGED <<processBtnDisabled, fetches, sentRequests>>
       ELSE /\ sentRequests' = sentRequests \cup {selectedFiles}
            /\ fetches' = fetches + 1
            /\ processBtnDisabled' = TRUE
    /\ UNCHANGED selectedFiles
    /\ ClientFrame

\* fetch settles: the rest of the click handler, through its finally block
FetchSettled ==
    /\ fetches > 0
    /\ fetches' = fetches - 1
    /\ processBtnDisabled' = FALSE
    /\ UNCHANGED <<selectedFiles, sentRequests>>
    /\ ClientFrame

NextClient == HandleFiles \/ RemoveFile \/ ClickProcess \/ FetchSettled

SpecClient == InitClient /\ [][NextClient]_vars

----------------------------------------------------------------------------
(* Properties of analyzeConversationFlow, checked under Spec *)

BothCallsFailed == calls = [primary |-> "rejected", fallback |-> "rejected"]

C2_ReturnsNodesAndDiagram ==
    /\ pc # "threw"
    /\ pc = "done" => IsArray(result.nodes) /\ result.mermaidDiagram.t = "str"

\* the tokens of the response being interpreted
ResponseText == response.content.v

\* the span from the first { to the last } of a text, <<>> when there is none
C3_Span(toks) ==
    LET opens == {i \in 1..Len(toks) : toks[i] = "{"}
        closes == {i \in 1..Len(toks) : toks[i] = "}"}
    IN  IF opens = {} \/ closes = {} THEN <<>>
        ELSE LET first == CHOOSE i \in opens : \A j \in opens : i <= j
                 last == CHOOSE i \in closes : \A j \in closes : j <= i
             IN  IF first < last THEN SubSeq(toks, first, last) ELSE <<>>

\* nodes node1 (greeting), node2 (question), node3 (farewell), in this order,
\* and edges node1 -> node2, node2 -> node3
C3_IsFallbackGraph(r) ==
    /\ IsArray(r.nodes)
    /\ IsArray(r.edges)
    /\ Len(r.nodes.v) = 3
    /\ Len(r.edges.v) = 2
    /\ \A k \in 1..3 : r.nodes.v[k].t = "obj"
    /\ <<r.nodes.v[1].id, r.nodes.v[2].id, r.nodes.v[3].id>> = <<Id1, Id2, Id3>>
    /\ <<r.nodes.v[1].type, r.nodes.v[2].type, r.nodes.v[3].type>>
           = <<Str(<<"greeting">>), Str(<<"question">>), Str(<<"farewell">>)>>
    /\ <<r.edges.v[1].from, r.edges.v[1].to>> = <<Id1, Id2>>
    /\ <<r.edges.v[2].from, r.edges.v[2].to>> = <<Id2, Id3>>

\* C3: the graph interpreted from a response text is its JSON parse when it
\* parses; otherwise the parse of the span from its first { to its last }
\* when that parses; otherwise, and only then, the value returned is the
\* fallback flow: nodes node1 (greeting), node2 (question), node3 (farewell)
\* and edges node1 -> node2, node2 -> node3, whatever the transcript.
C3_ParseCascade ==
    (pc = "done" /\ response.t = "ok" /\ response.content.t = "str") =>
        LET direct == ParseTokens(ResponseText, response.body)
            span == ParseTokens(C3_Span(ResponseText), response.body)
        IN  /\ direct.ok => flowData = direct.val
            /\ (~direct.ok /\ span.ok) => flowData = span.val
            /\ (~direct.ok /\ ~span.ok) <=> flowData = NoFlow
            /\ flowData = NoFlow <=> C3_IsFallbackGraph(result)
            /\ flowData # NoFlow =>
                   /\ result.nodes = Prop(flowData, "nodes")
                   /\ result.edges = Prop(flowData, "edges")

\* an object wrapped in prose is recovered
C3_Witness ==
    /\ pc = "done"
    /\ response.t = "ok"
    /\ response.content = Str(<<"x", "{", Members, "}">>)
    /\ flowData = response.body
    /\ IsArray(result.nodes)
    /\ Len(result.nodes.v) = 2

\* C4: the GPT-3.5 call is made only once the GPT-4 call has failed, the two
\* are never pending together, and each is made at most once per run.
C4_SequentialAttempts ==
    /\ Len(requests) <= 2
    /\ Len(requests) = (IF calls.primary = "none" THEN 0 ELSE 1)
                         + (IF calls.fallback = "none" THEN 0 ELSE 1)
    /\ \A k \in 1..Len(requests) :
           requests[k].model = (IF k = 1 THEN "gpt-4-0125-preview" ELSE "gpt-3.5-turbo")
    /\ calls.fallback # "none" => calls.primary = "rejected"
    /\ ~(calls.primary = "pending" /\ calls.fallback = "pending")

C4_Witness ==
    /\ calls = [primary |-> "rejected", fallback |-> "resolved"]
    /\ Len(requests) = 2
    /\ pc = "done"

\* C5: when the text prepared from the transcriptions is empty, the run ends
\* at once with no node, no edge and the 'No transcript available' diagram,
\* and no request is sent to either model.
C5_EmptyTranscriptEndsEarly ==
    (pc # "start" /\ ~PrepThrows(transcriptions) /\ PreparedText(transcriptions) = <<>>) =>
        /\ pc = "done"
        /\ result.nodes = Arr(<<>>)
        /\ result.edges = Arr(<<>>)
        /\ result.mermaidDiagram = Str(NoTranscriptDiagram)
        /\ requests = <<>>
        /\ calls = NoCalls

C5_Witness ==
    /\ pc = "done"
    /\ Len(transcriptions) = 1
    /\ PreparedText(transcriptions) = <<>>
    /\ result.mermaidDiagram = Str(NoTranscriptDiagram)

\* a retained node whose fullPrompt, or an emitted edge whose condition, is a
\* truthy value that is not a string
C8_Fault(fd) ==
    /\ fd.t = "obj"
    /\ IsArray(fd.nodes)
    /\ \/ \E i \in 1..Len(fd.nodes.v) :
              LET n == fd.nodes.v[i]
              IN  n.t = "obj" /\ Truthy(n.id) /\ n.fullPrompt.t = "num"
       \/ /\ IsArray(fd.edges)
          /\ \E k \in 1..Len(fd.edges.v) :
                 LET e == fd.edges.v[k]
                 IN  /\ e.t = "obj"
                     /\ e.condition.t = "num"
                     /\ \E i, j \in 1..Len(fd.nodes.v) :
                            /\ fd.nodes.v[i].t = "obj"
                            /\ fd.nodes.v[j].t = "obj"
                            /\ Truthy(e.from)
                            /\ Truthy(e.to)
                            /\ fd.nodes.v[i].id = e.from
                            /\ fd.nodes.v[j].id = e.to

\* C8: a fault inside generateMermaidDiagram (a fullPrompt or a condition
\* that is not a string) does not escape it: the diagram is exactly
\* 'graph TD\n    Error[Error]', and the value returned carries the parsed
\* nodes, edges and other properties unchanged next to it.
C8_RenderFaultKeepsFlow ==
    (pc \in {"done", "threw"} /\ C8_Fault(flowData)) =>
        /\ pc = "done"
        /\ mermaidDiagram = ErrorDiagram
        /\ result = Result(flowData.nodes, flowData.edges, flowData.globalInstructions,
                           Str(ErrorDiagram))

C8_Witness ==
    /\ pc = "done"
    /\ C8_Fault(flowData)
    /\ \E k \in 1..Len(flowData.edges.v) : flowData.edges.v[k].condition.t = "num"
    /\ result.mermaidDiagram = Str(ErrorDiagram)
    /\ Len(result.nodes.v) = 2

\* C11: once the transcript text is prepared, hasSpeakerSeparation is true
\* exactly when two of the utterances collected across all transcriptions
\* carry different speaker labels; it is false when all share one label and
\* when there is no utterance.
C11_SeparationIffTwoLabels ==
    (pc # "start" /\ ~PrepThrows(transcriptions)) =>
        LET us == AllUtterances(transcriptions)
        IN  hasSpeakerSeparation <=> \E i, j \in 1..Len(us) : us[i].speaker # us[j].speaker

C11_Witness ==
    /\ pc # "start"
    /\ Len(transcriptions) = 2
    /\ \A k \in 1..2 : Len(transcriptions[k].utterances) = 1
    /\ hasSpeakerSeparation

C12_Agent == <<"A", "g", "e", "n", "t">>
C12_Customer == <<"C", "u", "s", "t", "o", "m", "e", "r">>

\* C12: without speaker separation, when the prepared text has non-empty
\* sentence fragments, the text put into the request is one entry 'Label: fragment'
\* per non-empty fragment, in order, joined by newlines, where Label is
\* Agent when the fragment matches an agent pattern (even if it matches a
\* customer pattern too), else Customer when it matches a customer pattern,
\* else Agent at an even and Customer at an odd position among the
\* non-empty fragments.
C12_RoleInferencePriority ==
    (/\ pc = "primary"
     /\ ~hasSpeakerSeparation
     /\ Len(Sentences(PreparedText(transcriptions))) > 0) =>
        LET frs == Sentences(PreparedText(transcriptions))
            agent(k) == \E a \in 1..Len(agentPatterns) : Test(agentPatterns[a], frs[k])
            customer(k) == \E c \in 1..Len(customerPatterns) : Test(customerPatterns[c], frs[k])
            label(k) == CASE agent(k) -> C12_Agent
                          [] ~agent(k) /\ customer(k) -> C12_Customer
                          [] ~agent(k) /\ ~customer(k) /\ (k - 1) % 2 = 0 -> C12_Agent
                          [] ~agent(k) /\ ~customer(k) /\ (k - 1) % 2 = 1 -> C12_Customer
        IN  /\ transcriptText =
                   Join([k \in 1..Len(frs) |-> label(k) \o <<":", " ">> \o frs[k]], <<"\n">>)
            /\ requests[1].user.transcript = transcriptText

C12_Witness ==
    /\ pc = "primary"
    /\ transcriptions = <<Transcription(Str(MixedText), <<>>)>>
    /\ transcriptText =
        <<"C", "u", "s", "t", "o", "m", "e", "r", ":", " ", "O", "k", "a", "y", "\n", "A", "g",
          "e", "n", "t", ":", " ", "Y", "e", "s", " ", "c", "a", "n", " ", "h", "e",
          "l", "p", " ", "y", "o", "u", "\n", "A", "g", "e", "n", "t", ":", " ", "B",
          "y", "e", "\n", "C", "u", "s", "t", "o", "m", "e", "r", ":", " ", "S", "o">>

\* the run returned the fallback flow: a response came whose text gave no graph
C17_FellBack ==
    pc = "done" /\ response.t = "ok" /\ flowData = NoFlow /\ result.nodes = DefaultFlow.nodes

\* C17: whenever the fallback flow is returned it has been handed to the
\* renderer: the diagram returned with it is the rendering of the fallback
\* flow, with the declarations of N0, N1, N2 and two edges.
C17_FallbackFlowIsRendered ==
    C17_FellBack =>
        /\ renderCalls = 1
        /\ result.mermaidDiagram = Str(generateMermaidDiagram(DefaultFlow))

\* whether text begins with prefix
C20_StartsWith(text, prefix) ==
    Len(text) >= Len(prefix) /\ SubSeq(text, 1, Len(prefix)) = prefix

\* whether text is one entry 'Agent: fragment' or 'Customer: fragment' per
\* fragment, in order, the entries separated by newlines
RECURSIVE C20_RoleLines(_, _)
C20_RoleLines(text, frs) ==
    IF frs = <<>> THEN text = <<>>
    ELSE \E label \in {C12_Agent, C12_Customer} :
             LET entry == label \o <<":", " ">> \o Head(frs)
                 rest == SubSeq(text, Len(entry) + 1, Len(text))
             IN  /\ C20_StartsWith(text, entry)
                 /\ IF Len(frs) = 1 THEN rest = <<>>
                    ELSE /\ C20_StartsWith(rest, <<"\n">>)
                         /\ C20_RoleLines(Tail(rest), Tail(frs))

\* whether text is one 'Speaker {speaker}: {text}' line per utterance, in order
RECURSIVE C20_SpeakerLines(_, _)
C20_SpeakerLines(text, us) ==
    IF us = <<>> THEN text = <<>>
    ELSE LET entry == <<"S", "p", "e", "a", "k", "e", "r", " ">> \o Head(us).speaker
                          \o <<":", " ">> \o Head(us).text
             rest == SubSeq(text, Len(entry) + 1, Len(text))
         IN  /\ C20_StartsWith(text, entry)
             /\ IF Len(us) = 1 THEN rest = <<>>
                ELSE /\ C20_StartsWith(rest, <<"\n">>)
                     /\ C20_SpeakerLines(Tail(rest), Tail(us))

\* the utterances of every file, file after file, each file's in its own order
RECURSIVE C20_Utterances(_)
C20_Utterances(ts) ==
    IF ts = <<>> THEN <<>> ELSE Head(ts).utterances \o C20_Utterances(Tail(ts))

\* the text fields of the files with a blank line between one and the next
RECURSIVE C20_Texts(_)
C20_Texts(ts) ==
    LET text == IF Head(ts).text.t = "str" THEN Head(ts).text.v ELSE <<>>
    IN  IF Len(ts) = 1 THEN text ELSE text \o <<"\n", "\n">> \o C20_Texts(Tail(ts))

\* C20: the text a run puts into its request has exactly one of three forms.
\* With more than one distinct speaker it is one 'Speaker {speaker}: {text}'
\* line per utterance, files in order and utterances in order within a file.
\* Otherwise, when the text fields joined by blank lines have a non-empty
\* fragment, it is one 'Agent: ' or 'Customer: ' entry per fragment of that
\* joined text. Otherwise it is that joined text itself. In the last two forms
\* it is determined by the text fields alone.
C20_ExactlyOneForm ==
    requests # <<>> =>
        LET us == C20_Utterances(transcriptions)
            speakers == {us[k].speaker : k \in 1..Len(us)}
            joined == C20_Texts(transcriptions)
        IN  /\ requests[1].user.transcript = transcriptText
            /\ hasSpeakerSeparation = (Cardinality(speakers) > 1)
            /\ IF Cardinality(speakers) > 1
               THEN C20_SpeakerLines(transcriptText, us)
               ELSE IF Len(Sentences(joined)) > 0
                    THEN C20_RoleLines(transcriptText, Sentences(joined))
                    ELSE transcriptText = joined

\* a run on one file with three utterances of one speaker, whose request
\* carries the role-labelled fragments of the file's text field
C20_Witness ==
    /\ pc = "primary"
    /\ Len(transcriptions) = 1
    /\ Len(transcriptions[1].utterances) = 3
    /\ ~hasSpeakerSeparation
    /\ requests[1].user.transcript =
        <<"A", "g", "e", "n", "t", ":", " ", "G", "o", "\n",
          "C", "u", "s", "t", "o", "m", "e", "r", ":", " ", "y", "e", "s", "\n",
          "A", "g", "e", "n", "t", ":", " ", "S", "o">>

\* C21: role inference replaces the text only when hasSpeakerSeparation is
\* false and the joined text is non-empty, and leaves hasSpeakerSeparation as
\* the preparation set it; every request sent carries the NOTE line exactly
\* when hasSpeakerSeparation is false, whether or not the text was replaced
\* by Agent/Customer entries.
C21_CaveatIffNoSeparation ==
    requests # <<>> =>
        LET us == C20_Utterances(transcriptions)
            speakers == {us[k].speaker : k \in 1..Len(us)}
            joined == C20_Texts(transcriptions)
        IN  /\ hasSpeakerSeparation = (Cardinality(speakers) > 1)
            /\ \A k \in 1..Len(requests) : requests[k].user.caveat = ~hasSpeakerSeparation
            /\ hasSpeakerSeparation => C20_SpeakerLines(transcriptText, us)
            /\ (~hasSpeakerSeparation /\ transcriptText # joined) =>
                   /\ joined # <<>>
                   /\ C20_RoleLines(transcriptText, Sentences(joined))

\* both requests of a run without speaker separation were sent, each with
\* the NOTE line, on a text that role inference had replaced
C21_Witness ==
    /\ pc = "fallback"
    /\ Len(requests) = 2
    /\ ~hasSpeakerSeparation
    /\ transcriptions = <<Transcription(Str(MixedText), <<>>)>>
    /\ C20_StartsWith(transcriptText, C12_Customer \o <<":", " ">>)
    /\ requests[1].user.caveat /\ requests[2].user.caveat

\* C28: a run on transcriptions, one or several, that have no utterances
\* and whose texts are all empty ends at once with no node and the 'No
\* transcript available' diagram, and sends no request.
C28_AllEmptyEndsEarly ==
    (/\ pc # "start"
     /\ \A k \in 1..Len(transcriptions) :
            /\ transcriptions[k].utterances = <<>>
            /\ transcriptions[k].text = Str(<<>>)) =>
        /\ pc = "done"
        /\ result.nodes = Arr(<<>>)
        /\ result.mermaidDiagram = Str(NoTranscriptDiagram)
        /\ requests = <<>>
        /\ calls = NoCalls

----------------------------------------------------------------------------
(* Properties of generateMermaidDiagram, checked under SpecRender *)

Rendered == pc \in {"rendered", "rerendered"}

\* a node without an id: null, or an object whose id is absent
LacksId(node) == node.t = "null" \/ node.id = Undef

\* C6: the diagram is exactly 'graph TD\n    Start[Start]' when nodes is
\* absent, is not an array, is empty, or holds only nodes without an id,
\* whatever the edges.
C6_PlaceholderWhenNothingRenderable ==
    (/\ Rendered
     /\ \/ flowData.t # "obj"
        \/ ~IsArray(flowData.nodes)
        \/ \A i \in 1..Len(flowData.nodes.v) : LacksId(flowData.nodes.v[i]))
        => mermaidDiagram = StartDiagram

C6_Witness ==
    /\ Rendered
    /\ flowData.t = "obj"
    /\ IsArray(flowData.nodes)
    /\ Len(flowData.nodes.v) = 2
    /\ \A i \in 1..Len(flowData.nodes.v) : LacksId(flowData.nodes.v[i])
    /\ IsArray(flowData.edges)
    /\ Len(flowData.edges.v) > 0
    /\ mermaidDiagram = StartDiagram

RemoveAt(seq, k) == [i \in 1..(Len(seq) - 1) |-> IF i < k THEN seq[i] ELSE seq[i + 1]]

\* an edge with an endpoint that is the id of no retained node
Dangling(nodes, edge) ==
    \/ ~\E i \in 1..Len(nodes) : IsValidNode(nodes[i]) /\ nodes[i].id = edge.from
    \/ ~\E i \in 1..Len(nodes) : IsValidNode(nodes[i]) /\ nodes[i].id = edge.to

\* C7: an edge with a dangling endpoint leaves no trace: the diagram is the
\* one of the same graph without that edge, so the edge raises no error and
\* every node line and every other edge line is as it would be without it.
C7_DanglingEdgeDropped ==
    (Rendered /\ flowData.t = "obj" /\ IsArray(flowData.nodes) /\ IsArray(flowData.edges)) =>
        \A k \in 1..Len(flowData.edges.v) :
            Dangling(flowData.nodes.v, flowData.edges.v[k]) =>
                mermaidDiagram =
                    generateMermaidDiagram(Flow(flowData.nodes,
                                                Arr(RemoveAt(flowData.edges.v, k)),
                                                flowData.globalInstructions))

C7_Witness ==
    /\ Rendered
    /\ flowData.t = "obj"
    /\ IsArray(flowData.nodes)
    /\ IsArray(flowData.edges)
    /\ Len(flowData.edges.v) = 2
    /\ flowData.edges.v[1] = Edge(IdX, Id1, Undef)
    /\ IsEmittedEdge(flowData.nodes.v, flowData.edges.v[2])
    /\ mermaidDiagram # ErrorDiagram
    /\ mermaidDiagram # StartDiagram

----------------------------------------------------------------------------
(* Properties of the upload handler, checked under SpecUpload *)

\* C10: once storeConversationFlow has been called, whatever it and
\* uploadAudioFile report, the response to the upload (unless unlinking a
\* temp file failed) has status 200 and success true and carries the
\* analysis result and the transcriptions as they were before storage;
\* only flowId and storageResult follow the storage outcome.
C10_StorageFailureKeepsResult ==
    (pc = "sent" /\ storeCalls > 0 /\ httpResponse.error # "unlink rejected") =>
        /\ httpResponse.status = 200
        /\ httpResponse.success
        /\ httpResponse.flowData = result
        /\ httpResponse.transcriptions = transcriptions
        /\ \E gen \in GenerationSamples :
               httpResponse.flowData
                   = analyzeConversationFlow(transcriptions, gen[1], gen[2]).v
        /\ httpResponse.storageResult = storeResult
        /\ httpResponse.flowId = (IF HasFlowId(storeResult) THEN FlowId ELSE Null)

C10_Witness ==
    /\ pc = "sent"
    /\ storeCalls = 1
    /\ ~storeResult.success
    /\ storeResult.error = "insert rejected"
    /\ httpResponse.status = 200
    /\ httpResponse.flowId = Null
    /\ IsArray(httpResponse.flowData.nodes)
    /\ Len(httpResponse.flowData.nodes.v) = 2
    /\ Len(httpResponse.transcriptions) = 2
    /\ Len(unlinked) = 2

C13_Digits == {"0", "1", "2", "3", "4", "5", "6", "7", "8", "9"}

\* 'N' followed by the 0-based position of the node at 1-based position i
C13_PositionalId(i) == <<"N">> \o NatToString(i - 1)

\* the identifier id stands right after position p of the diagram d
C13_IdentAfter(d, p, id) ==
    /\ p + Len(id) <= Len(d)
    /\ SubSeq(d, p + 1, p + Len(id)) = id
    /\ (p + Len(id) < Len(d) => d[p + Len(id) + 1] \notin C13_Digits)

\* the places of a diagram an identifier follows: a line start, an arrow, a condition label
C13_Anchors(d) ==
    {p \in (Len(DiagramHeader) + 1)..Len(d) : d[p] \in {"    ", " --> ", "| "}}

\* the line starts of the node declarations: an identifier, then a shape opener
C13_Declarations(d, n) ==
    {p \in C13_Anchors(d) :
        /\ d[p] = "    "
        /\ \E i \in 1..n :
               /\ C13_IdentAfter(d, p, C13_PositionalId(i))
               /\ p + Len(C13_PositionalId(i)) < Len(d)
               /\ d[p + Len(C13_PositionalId(i)) + 1] \in {"([\"", "{\"", "[\""}}

\* C13: in a diagram that is neither placeholder, every identifier (at a
\* line start, after an arrow, after a condition label) is N{index} for the
\* 0-based position index, in the array given, of a node that has an id;
\* the node declarations are exactly those of the nodes with an id, in
\* array order, each under its own position, so a node without an id uses
\* up its position; and no id the generator supplied is emitted (ids are
\* whole chunks of the diagram, label text is single characters).
C13_OnlyPositionalIds ==
    (Rendered /\ mermaidDiagram \notin {StartDiagram, ErrorDiagram}) =>
        LET d == mermaidDiagram
            nodes == flowData.nodes.v
            edges == EdgesOf(flowData)
            kept == {i \in 1..Len(nodes) : nodes[i].t = "obj" /\ Truthy(nodes[i].id)}
            decls == C13_Declarations(d, Len(nodes))
        IN  /\ \A p \in C13_Anchors(d) :
                   \E i \in kept : C13_IdentAfter(d, p, C13_PositionalId(i))
            /\ Cardinality(decls) = Cardinality(kept)
            /\ \A i \in kept :
                   \E p \in decls :
                       /\ C13_IdentAfter(d, p, C13_PositionalId(i))
                       /\ Cardinality({q \in decls : q < p}) = Cardinality({j \in kept : j < i})
            /\ \A p \in 1..Len(d) :
                   /\ \A i \in 1..Len(nodes) : nodes[i].t = "obj" => <<d[p]>> # nodes[i].id.v
                   /\ \A k \in 1..Len(edges) :
                          edges[k].t = "obj" =>
                              <<d[p]>> # edges[k].from.v /\ <<d[p]>> # edges[k].to.v

\* a node without an id ahead of a node with one: the second is declared as N1
C13_Witness ==
    /\ Rendered
    /\ mermaidDiagram \notin {StartDiagram, ErrorDiagram}
    /\ Len(flowData.nodes.v) = 2
    /\ flowData.nodes.v[1].t = "obj"
    /\ flowData.nodes.v[1].id = Undef
    /\ IsValidNode(flowData.nodes.v[2])
    /\ Len(EdgesOf(flowData)) = 1
    /\ C13_Declarations(mermaidDiagram, 2) # {}
    /\ \A p \in C13_Declarations(mermaidDiagram, 2) :
           C13_IdentAfter(mermaidDiagram, p, <<"N", "1">>)

\* the chunks the renderer writes itself around the texts and identifiers
C14_Structure ==
    {"    ", "([\"", "\"])", "{\"", "\"}", "[\"", "\"]", "<br/><small>", "</small>\"]", ":::",
     " --> ", " -->|", "| "}
C14_ClassNames == {"greeting", "question", "decision", "confirmation", "farewell"}

\* the characters no emitted text may hold
C14_Forbidden ==
    {"\n", "\r", "\t", "'", "\"", Backtick, "~", "!", "@", "#", "$", "%", "^", "&", "*", "(", ")",
     "+", "=", "{", "}", "[", "]", "|", "\\", ":", ";", "<", ">", "?", ",", ".", "/"}

\* position p of d is in a '...' that ends a label or a prompt summary
C14_InSuffix(d, p) ==
    \E q \in {p - 2, p - 1, p} :
        /\ q >= 1
        /\ q + 3 <= Len(d)
        /\ SubSeq(d, q, q + 2) = <<".", ".", ".">>
        /\ d[q + 3] \in {"\"])", "\"}", "\"]", "<br/><small>", "</small>\"]"}

\* C14: after its header a diagram that is neither placeholder consists of
\* the renderer's own chunks, class names, line ends followed by the next
\* line, '...' suffixes closing a label or a prompt summary, and apart from
\* these only characters that are no newline, carriage return or tab, no
\* quote and no blacklisted punctuation: every label, prompt summary and
\* condition emitted is sanitized.
C14_EmittedTextSanitized ==
    (Rendered /\ mermaidDiagram \notin {StartDiagram, ErrorDiagram}) =>
        LET d == mermaidDiagram
        IN  \A p \in (Len(DiagramHeader) + 1)..Len(d) :
                \/ d[p] \in C14_Structure \cup C14_ClassNames
                \/ d[p] = "\n" /\ (p = Len(d) \/ d[p + 1] = "    ")
                \/ C14_InSuffix(d, p)
                \/ d[p] \notin C14_Forbidden

\* punctuation, quotes and line breaks in a label, a prompt and a condition
C14_Witness ==
    /\ Rendered
    /\ mermaidDiagram \notin {StartDiagram, ErrorDiagram}
    /\ Len(flowData.nodes.v) = 3
    /\ flowData.nodes.v[1].content = Str(PunctuatedText)
    /\ flowData.nodes.v[1].fullPrompt = Str(MultilinePromptText)
    /\ Len(EdgesOf(flowData)) = 2
    /\ EdgesOf(flowData)[2].condition = Str(<<"y", "e", "s", ",", " ", "o", "k", "!">>)
    /\ \E p \in 1..Len(mermaidDiagram) : mermaidDiagram[p] = " -->|"
    /\ \E p \in 1..Len(mermaidDiagram) : mermaidDiagram[p] = "<br/><small>"

\* the main label in the declaration of the node at position i: the text
\* from the shape opener to the closer or to the start of the prompt summary
C15_EmittedLabel(d, i) ==
    LET id == C13_PositionalId(i)
        p == CHOOSE q \in C13_Declarations(d, i) : C13_IdentAfter(d, q, id)
        first == p + Len(id) + 2
        ends == {q \in first..Len(d) : d[q] \in {"\"])", "\"}", "\"]", "<br/><small>"}}
        last == CHOOSE q \in ends : \A r \in ends : q <= r
    IN  SubSeq(d, first, last - 1)

C15_EndsWithDots(label) ==
    Len(label) >= 3 /\ SubSeq(label, Len(label) - 2, Len(label)) = <<".", ".", ".">>

\* C15: the main label emitted for a node is at most 30 characters long: a
\* sanitized label of at most 30 characters is emitted as it is, a longer
\* one as its first 27 characters followed by '...', 30 characters in all;
\* the label ends in '...' exactly when it was cut.
C15_LabelWithinBudget ==
    (Rendered /\ mermaidDiagram \notin {StartDiagram, ErrorDiagram}) =>
        \A i \in 1..Len(flowData.nodes.v) :
            LET node == flowData.nodes.v[i]
            IN  (node.t = "obj" /\ Truthy(node.id)) =>
                    LET clean == Sanitize(IF Truthy(node.content) THEN node.content.v
                                          ELSE <<"N", "o", "d", "e">>)
                        label == C15_EmittedLabel(mermaidDiagram, i)
                    IN  /\ Len(label) <= 30
                        /\ Len(clean) <= 30 => label = clean
                        /\ Len(clean) > 30 =>
                               label = SubSeq(clean, 1, 27) \o <<".", ".", ".">> /\ Len(label) = 30
                        /\ C15_EndsWithDots(label) <=> Len(clean) > 30

\* labels of 45, 30 and 31 characters: cut, kept, cut
C15_Witness ==
    /\ Rendered
    /\ mermaidDiagram \notin {StartDiagram, ErrorDiagram}
    /\ Len(flowData.nodes.v) = 3
    /\ flowData.nodes.v[1].content = Str(Text45)
    /\ flowData.nodes.v[2].content = Str(Text30)
    /\ flowData.nodes.v[3].content = Str(Text31)
    /\ C15_EmittedLabel(mermaidDiagram, 1) = SubSeq(Text45, 1, 27) \o <<".", ".", ".">>
    /\ C15_EmittedLabel(mermaidDiagram, 2) = Text30
    /\ Len(C15_EmittedLabel(mermaidDiagram, 3)) = 30

\* a field that is absent, null or empty
C16_Absent(x) == x.t \in {"undef", "null"} \/ x = Str(<<>>)

\* the chunks of the declaration of the node at position i, up to its line end
C16_Declaration(d, i) ==
    LET p == CHOOSE q \in C13_Declarations(d, i) : C13_IdentAfter(d, q, C13_PositionalId(i))
        ends == {q \in p..Len(d) : d[q] = "\n"}
        last == CHOOSE q \in ends : \A r \in ends : q <= r
    IN  SubSeq(d, p, last)

\* C16: a graph whose nodes with an id lack content, type or fullPrompt (and
\* in which no fullPrompt or condition present is of the wrong type) is
\* rendered, not rejected: the diagram is neither placeholder, every node
\* with an id is declared under N{index}, with the label 'Node' when its
\* content is absent or empty, as a plain rectangle without class when its
\* type is absent, and without prompt summary when its fullPrompt is absent.
C16_MissingFieldsStillRendered ==
    (/\ Rendered
     /\ flowData.t = "obj"
     /\ IsArray(flowData.nodes)
     /\ \E i \in 1..Len(flowData.nodes.v) :
            flowData.nodes.v[i].t = "obj" /\ Truthy(flowData.nodes.v[i].id)
     /\ ~C8_Fault(flowData)) =>
        /\ mermaidDiagram \notin {StartDiagram, ErrorDiagram}
        /\ \A i \in 1..Len(flowData.nodes.v) :
               LET node == flowData.nodes.v[i]
                   id == C13_PositionalId(i)
               IN  (node.t = "obj" /\ Truthy(node.id)) =>
                       /\ \E p \in C13_Declarations(mermaidDiagram, i) :
                              C13_IdentAfter(mermaidDiagram, p, id)
                       /\ C16_Absent(node.content) =>
                              C15_EmittedLabel(mermaidDiagram, i) = <<"N", "o", "d", "e">>
                       /\ C16_Absent(node.type) =>
                              /\ C16_Declaration(mermaidDiagram, i)[Len(id) + 2] = "[\""
                              /\ \A q \in 1..Len(C16_Declaration(mermaidDiagram, i)) :
                                     C16_Declaration(mermaidDiagram, i)[q] # ":::"
                       /\ C16_Absent(node.fullPrompt) =>
                              \A q \in 1..Len(C16_Declaration(mermaidDiagram, i)) :
                                  C16_Declaration(mermaidDiagram, i)[q] # "<br/><small>"

\* a node with an empty content and a node with nothing but its id
C16_Witness ==
    /\ Rendered
    /\ Len(flowData.nodes.v) = 3
    /\ flowData.nodes.v[2] = Node(Id2, Undef, Str(<<>>), Undef)
    /\ flowData.nodes.v[3] = Node(Id3, Undef, Undef, Undef)
    /\ C16_Declaration(mermaidDiagram, 2) = <<"    ", "N", "1", "[\"", "N", "o", "d", "e", "\"]", "\n">>
    /\ C16_Declaration(mermaidDiagram, 3) = <<"    ", "N", "2", "[\"", "N", "o", "d", "e", "\"]", "\n">>

\* whether the chunks of line occur in d one after another
C22_HasLine(d, line) ==
    \E p \in 0..(Len(d) - Len(line)) : SubSeq(d, p + 1, p + Len(line)) = line

\* the safe id an original id is mapped to: that of the last node carrying it
C22_SafeIdOf(nodes, id) ==
    LET hits == {i \in 1..Len(nodes) : nodes[i].t = "obj" /\ nodes[i].id = id}
    IN  C13_PositionalId(CHOOSE i \in hits : \A j \in hits : j <= i)

\* an edge whose endpoints are both ids of retained nodes
C22_Retained(nodes, edge) ==
    /\ edge.t = "obj" /\ edge.from.t = "str" /\ edge.to.t = "str"
    /\ \E i \in 1..Len(nodes) : nodes[i].t = "obj" /\ nodes[i].id = edge.from
    /\ \E i \in 1..Len(nodes) : nodes[i].t = "obj" /\ nodes[i].id = edge.to

\* C22: in a diagram that is neither placeholder, an edge with both endpoints
\* retained and a condition is emitted as 'from -->|label| to', the label
\* being the condition sanitized and then cut to its first 20 characters; an
\* edge without condition is emitted as 'from --> to'.
C22_ConditionSanitizedThenCut ==
    (/\ Rendered
     /\ mermaidDiagram \notin {StartDiagram, ErrorDiagram}
     /\ IsArray(flowData.edges)) =>
        \A k \in 1..Len(flowData.edges.v) :
            LET nodes == flowData.nodes.v
                edge == flowData.edges.v[k]
            IN  C22_Retained(nodes, edge) =>
                    LET from == C22_SafeIdOf(nodes, edge.from)
                        to == C22_SafeIdOf(nodes, edge.to)
                    IN  IF edge.condition.t = "str" /\ edge.condition.v # <<>>
                        THEN C22_HasLine(mermaidDiagram,
                                 <<"    ">> \o from \o <<" -->|">>
                                     \o Substring0(Sanitize(edge.condition.v), 20)
                                     \o <<"| ">> \o to \o <<"\n">>)
                        ELSE C22_HasLine(mermaidDiagram,
                                 <<"    ">> \o from \o <<" --> ">> \o to \o <<"\n">>)

\* whether the chunks of the declaration decl end with the chunks of tail
C23_EndsWith(decl, tail) ==
    Len(decl) >= Len(tail) /\ SubSeq(decl, Len(decl) - Len(tail) + 1, Len(decl)) = tail

\* the declaration of a node follows the lookup on its type, the types in
\* classed being those drawn as a rectangle with a class of their own
C23_FollowsLookup(node, decl, opener, classed) ==
    LET summarized == \E q \in 1..Len(decl) : decl[q] = "<br/><small>"
        styled == \E q \in 1..Len(decl) : decl[q] = ":::"
    IN  /\ summarized => opener = "[\""
        /\ IF node.type \in {Str(<<"greeting">>), Str(<<"farewell">>)}
           THEN /\ opener = "([\""
                /\ C23_EndsWith(decl, <<"\"])", ":::">> \o node.type.v \o <<"\n">>)
           ELSE IF node.type = Str(<<"decision">>)
           THEN /\ opener = "{\""
                /\ C23_EndsWith(decl, <<"\"}", ":::", "decision", "\n">>)
           ELSE IF \E name \in classed : node.type = Str(<<name>>)
           THEN /\ opener = "[\""
                /\ \E closer \in {"\"]", "</small>\"]"} :
                       C23_EndsWith(decl, <<closer, ":::">> \o node.type.v \o <<"\n">>)
           ELSE /\ opener = "[\""
                /\ ~styled
                /\ \E closer \in {"\"]", "</small>\"]"} : C23_EndsWith(decl, <<closer, "\n">>)

C23_Lookup(classed) ==
    (Rendered /\ mermaidDiagram \notin {StartDiagram, ErrorDiagram}) =>
        \A i \in 1..Len(flowData.nodes.v) :
            LET node == flowData.nodes.v[i]
            IN  (node.t = "obj" /\ node.id.t = "str") =>
                    LET decl == C16_Declaration(mermaidDiagram, i)
                    IN  C23_FollowsLookup(node, decl, decl[Len(C13_PositionalId(i)) + 2],
                                          classed)

\* C23 as stated: shape and style class are a lookup on the type alone:
\* greeting and farewell a stadium, decision a diamond, question,
\* confirmation and other a rectangle, each with the class named after the
\* type; any further or missing type a plain rectangle without class; a
\* prompt summary only in a rectangle.
C23_OtherCarriesClass == C23_Lookup({"question", "confirmation", "other"})

\* C23 as amended: the same lookup with the type other among the unknown
\* types: it is drawn as a plain rectangle without class.
C23_ShapeAndClassByType == C23_Lookup({"question", "confirmation"})

\* a farewell with a prompt drawn as a stadium without it, next to a node of
\* type other drawn as a plain rectangle with its prompt summary
C23_Witness ==
    /\ Rendered
    /\ Len(flowData.nodes.v) = 3
    /\ flowData.nodes.v[1].type = Str(<<"farewell">>)
    /\ flowData.nodes.v[2].type = Str(<<"other">>)
    /\ C16_Declaration(mermaidDiagram, 1) =
           <<"    ", "N", "0", "([\"", "B", "y", "e", "\"])", ":::", "farewell", "\n">>
    /\ C16_Declaration(mermaidDiagram, 2) =
           <<"    ", "N", "1", "[\"", "M", "i", "s", "c", "<br/><small>", "D", "o",
             "</small>\"]", "\n">>

C24_Whitespace == {" ", "\t", "\n", "\r"}

\* C24: in a diagram that is neither placeholder, no main label emitted for
\* a node holds two whitespace characters in a row.
C24_WhitespaceCollapsed ==
    (Rendered /\ mermaidDiagram \notin {StartDiagram, ErrorDiagram}) =>
        \A i \in 1..Len(flowData.nodes.v) :
            LET node == flowData.nodes.v[i]
            IN  (node.t = "obj" /\ node.id.t = "str") =>
                    LET label == C15_EmittedLabel(mermaidDiagram, i)
                    IN  \A q \in 1..(Len(label) - 1) :
                            ~(label[q] \in C24_Whitespace /\ label[q + 1] \in C24_Whitespace)

\* the positions of the arrows of a diagram
C29_Arrows(d) == {q \in 1..Len(d) : d[q] \in {" --> ", " -->|"}}

\* the identifier in front of the arrow at q: what follows the line's indent
C29_FromId(d, q) ==
    LET starts == {p \in 1..(q - 1) : d[p] = "    "}
        start == CHOOSE p \in starts : \A r \in starts : r <= p
    IN  SubSeq(d, start + 1, q - 1)

\* the identifier the arrow at q points to: what stands before the line's end
C29_ToId(d, q) ==
    LET ends == {p \in (q + 1)..Len(d) : d[p] = "\n"}
        end == CHOOSE p \in ends : \A r \in ends : p <= r
        bars == {p \in (q + 1)..(end - 1) : d[p] = "| "}
        begin == IF d[q] = " --> " THEN q ELSE CHOOSE p \in bars : \A r \in bars : r <= p
    IN  SubSeq(d, begin + 1, end - 1)

\* the positions of the nodes that are declared under the identifier id
C29_DeclaredAs(d, nodes, id) ==
    {i \in 1..Len(nodes) :
        /\ nodes[i].t = "obj" /\ nodes[i].id.t = "str"
        /\ id = C13_PositionalId(i)
        /\ \E p \in C13_Declarations(d, Len(nodes)) : C13_IdentAfter(d, p, id)}

\* C29: in a diagram that is neither placeholder, the retained nodes are
\* declared under pairwise distinct identifiers, one declaration each, and
\* every arrow joins two declared identifiers whose nodes carry, as their
\* original ids, the from and the to of an edge of the graph, also when ids
\* are used twice or missing.
C29_EdgesReferentiallySound ==
    (Rendered /\ mermaidDiagram \notin {StartDiagram, ErrorDiagram}) =>
        LET d == mermaidDiagram
            nodes == flowData.nodes.v
            retained == {i \in 1..Len(nodes) : nodes[i].t = "obj" /\ nodes[i].id.t = "str"}
        IN  /\ Cardinality(C13_Declarations(d, Len(nodes))) = Cardinality(retained)
            /\ \A i \in retained : C29_DeclaredAs(d, nodes, C13_PositionalId(i)) = {i}
            /\ \A q \in C29_Arrows(d) :
                   \E i \in C29_DeclaredAs(d, nodes, C29_FromId(d, q)),
                      j \in C29_DeclaredAs(d, nodes, C29_ToId(d, q)) :
                       /\ IsArray(flowData.edges)
                       /\ \E k \in 1..Len(flowData.edges.v) :
                              /\ flowData.edges.v[k].t = "obj"
                              /\ flowData.edges.v[k].from = nodes[i].id
                              /\ flowData.edges.v[k].to = nodes[j].id

\* the graph in which node1 is used twice and one node has no id: its
\* edges are drawn from and to the second node1
C29_Witness ==
    /\ Rendered
    /\ Len(flowData.nodes.v) = 4
    /\ flowData.nodes.v[1].id = flowData.nodes.v[3].id
    /\ C22_HasLine(mermaidDiagram, <<"    ", "N", "2", " -->|", "o", "k", "| ", "N", "3", "\n">>)
    /\ C22_HasLine(mermaidDiagram, <<"    ", "N", "3", " --> ", "N", "2", "\n">>)
    /\ Cardinality(C29_Arrows(mermaidDiagram)) = 2

----------------------------------------------------------------------------
(* Properties of concurrent invocations, checked under SpecConcurrent *)

\* what the GPT-4 and the GPT-3.5 call of a run came back with
C18_Primary(run) == IF run.calls.primary = "rejected" THEN Rejected ELSE run.response
C18_Fallback(run) == IF run.calls.fallback = "rejected" THEN Rejected ELSE run.response

\* C18: however two invocations interleave at their awaits, neither throws,
\* each sends requests built from its own transcriptions only, and the flow
\* and diagram each returns are those of an invocation running alone on its
\* own transcriptions with its own responses.
C18_RunsDoNotInterfere ==
    \A r \in DOMAIN runs :
        LET run == runs[r]
            own == Prompt(NormalizedText(run.transcriptions),
                          HasSpeakerSeparation(run.transcriptions))
        IN  /\ run.pc # "threw"
            /\ \A k \in 1..Len(run.requests) :
                   run.requests[k] = (IF k = 1 THEN PrimaryRequest(own) ELSE FallbackRequest(own))
            /\ run.pc = "done" =>
                   run.result = analyzeConversationFlow(run.transcriptions, C18_Primary(run),
                                                        C18_Fallback(run)).v

\* one run has returned after its fallback while the other, on another
\* transcript, waits for its own fallback
C18_Witness ==
    /\ DOMAIN runs = RunIds
    /\ runs[1].pc = "done"
    /\ Len(runs[1].requests) = 2
    /\ IsArray(runs[1].result.nodes)
    /\ runs[2].pc = "fallback"
    /\ runs[1].transcriptions # runs[2].transcriptions
    /\ runs[1].requests[2] # runs[2].requests[2]

----------------------------------------------------------------------------
(* Properties of the browser client, checked under SpecClient *)

\* C19: after any sequence of additions and removals selectedFiles holds at
\* most 10 files, none larger than 25MB, and every upload request sent
\* carries at least one file and at most 40MB in all.
C19_ClientKeepsLimits ==
    /\ Len(selectedFiles) <= 10
    /\ \A k \in 1..Len(selectedFiles) : selectedFiles[k].size <= 25 * 1024 * 1024
    /\ \A request \in sentRequests :
           /\ Len(request) >= 1
           /\ Len(request) <= 10
           /\ \A k \in 1..Len(request) : request[k].size <= 25 * 1024 * 1024
           /\ TotalSize(request) <= 40 * 1024 * 1024

\* a request of exactly 40MB was sent, a file of exactly 25MB is selected, and
\* the list has grown to its 10 files while the request is in flight
C19_Witness ==
    /\ \E request \in sentRequests : TotalSize(request) = 40 * 1024 * 1024
    /\ fetches = 1
    /\ Len(selectedFiles) = 10
    /\ \E k \in 1..10 : selectedFiles[k].size = 25 * 1024 * 1024
    /\ TotalSize(selectedFiles) > 40 * 1024 * 1024

\* C26: at most one upload request of the client is in flight, and while
\* one is, processBtn is disabled, whatever files are added or removed
\* meanwhile.
C26_AtMostOneInFlight ==
    /\ fetches <= 1
    /\ fetches > 0 => processBtnDisabled

----------------------------------------------------------------------------
(* Further properties of the upload handler, checked under SpecUpload *)

\* the messages of the errors thrown while a file is uploaded or transcribed
C25_TranscriptionFailures ==
    {"Failed to upload file to AssemblyAI", "transcribe rejected", "get rejected",
     "Transcription failed"}

\* C25: the files are transcribed one after another: while file number
\* fileIdx is uploaded, transcribed or polled, exactly the files before it
\* have completed transcripts, in file order, and no analysis has begun.
\* analyzeConversationFlow is called at most once, and only when every file
\* has a completed transcript; a successful response has seen exactly one
\* call. When an upload or a transcription fails the response is the error
\* response and neither synthesis nor storage has been called.
C25_SequentialThenOneAnalysis ==
    /\ analyzeCalls <= 1
    /\ Len(audioFileData) = Len(transcriptions)
    /\ \A k \in 1..Len(audioFileData) : k <= Len(files) /\ audioFileData[k] = files[k]
    /\ pc \in {"files.upload", "transcribe", "transcripts.get"} =>
           /\ fileIdx \in 1..Len(files)
           /\ Len(transcriptions) = fileIdx - 1
           /\ analyzeCalls = 0 /\ storeCalls = 0
    /\ (pc = "analyzeConversationFlow" \/ analyzeCalls = 1) =>
           /\ Len(transcriptions) = Len(files)
           /\ tstatus = "completed"
    /\ storeCalls > 0 => analyzeCalls = 1
    /\ httpResponse.status = 200 => analyzeCalls = 1
    /\ httpResponse.error \in C25_TranscriptionFailures =>
           /\ httpResponse.status = 500 /\ ~httpResponse.success
           /\ analyzeCalls = 0 /\ storeCalls = 0
           /\ result = NoResult

\* two files were transcribed, the second after a poll, and analysed in one
\* call, and the response went out
C25_Witness ==
    /\ pc = "sent"
    /\ httpResponse.status = 200
    /\ Len(files) = 2
    /\ Len(httpResponse.transcriptions) = 2
    /\ analyzeCalls = 1

\* C27: once the handler has sent its response, whichever it is, every temp
\* file stored for the request has been unlinked, and none was unlinked
\* twice.
C27_NoTempFileOutlivesRequest ==
    pc = "sent" =>
        /\ \A i \in 1..Len(files) : \E k \in 1..Len(unlinked) : unlinked[k] = files[i].path
        /\ \A k, l \in 1..Len(unlinked) : unlinked[k] = unlinked[l] => k = l

----------------------------------------------------------------------------
(* Properties of the polling loop, checked under SpecUploadLive *)

C30_InLoop(p) == p \in {"transcribe", "transcripts.get"}

\* C30: the polling loop of a file is left only with a terminal status (or
\* by a rejected call); a transcription is added only with the status
\* completed; the status error ends the request with the error response;
\* and when every await settles and the service does not stay pending for
\* ever, the handler sends a response, after which it sends no other.
C30_PollingEndsInOneResponse ==
    /\ [][(C30_InLoop(pc) /\ ~C30_InLoop(pc')) =>
              \/ tstatus' = "completed" /\ pc' \in {"files.upload", "analyzeConversationFlow"}
              \/ tstatus' = "error" /\ pc' = "sent"
              \/ pc' = "sent" /\ httpResponse'.error \in {"transcribe rejected", "get rejected"}]_vars
    /\ [][Len(transcriptions') # Len(transcriptions) =>
              /\ transcriptions' # <<>>
              /\ SubSeq(transcriptions', 1, Len(transcriptions)) = transcriptions
              /\ Len(transcriptions') = Len(transcriptions) + 1
              /\ tstatus' = "completed"]_vars
    /\ [](tstatus = "error" =>
              /\ pc = "sent"
              /\ httpResponse.status = 500
              /\ httpResponse.error = "Transcription failed")
    /\ [][httpResponse' # httpResponse => (httpResponse = NoHttpResponse /\ pc' = "sent")]_vars
    /\ [](pc = "sent" => httpResponse.status \in {200, 500})
    /\ <>[](pc = "sent")

\* the second file of a request was polled up to the cap of the counter and
\* beyond, and then failed: the error response is out
C30_Witness ==
    /\ pc = "sent"
    /\ tstatus = "error"
    /\ polls = MaxPolls
    /\ fileIdx = 2
    /\ Len(transcriptions) = 1
    /\ httpResponse.status = 500

====
